---- MODULE Spec2Model ----
(***************************************************************************)
(* A model of pomotui's timer engine (src/pomotui/timer/pomodoro.py,       *)
(* src/pomotui/timer/state.py), of its storage gateway                     *)
(* (src/pomotui/database/manager.py, schema.py) and of its configuration   *)
(* model (src/pomotui/models/config.py).  Each part has its own            *)
(* specification (Spec, GatewaySpec, ModelsSpec); the variables of the     *)
(* other parts do not change in it.                                        *)
(*                                                                         *)
(* The engine is a single object driven by one caller.  Each public method *)
(* is one action.  The wall clock (datetime.now()) is the variable `now`,  *)
(* counted in units of 1/TicksPerSecond second, and only moves forward.    *)
(* The three listeners (state change, tick, session complete) are taken to *)
(* be registered, as the application does in PomodoroApp.__init__; what    *)
(* they receive during a call is recorded in `notified`.                   *)
(***************************************************************************)
EXTENDS Integers, Sequences, FiniteSets, TLC

\* ---------------------------------------------------------------- bounds

\* wall-clock resolution of the model: clock units per second
TicksPerSecond == 2
\* the wall clock stops advancing after this many seconds (which also bounds
\* the number of sessions that can run out, and so completed_pomodoros)
MaxSeconds == 125

\* minutes -> seconds conversion of PomodoroTimer.__init__
SecondsPerMinute == 60

\* configurations the engine is constructed with (minutes; all pass
\* TimerConfig.validate)
WorkMinutes == {1, 2}
ShortBreakMinutes == {1}
LongBreakMinutes == {1, 2}
LongBreakThresholds == {1, 2}

\* task ids handed to set_current_task
TaskIds == {1, 2}

\* amounts of wall-clock time that pass between two calls (clock units):
\* 20 s and one clock unit (a fractional delay), and 60 s
Delays == {20 * TicksPerSecond + 1, 60 * TicksPerSecond}

MaxNow == MaxSeconds * TicksPerSecond

\* TimerConfig fields are drawn from (1 - ConfigSpan)..ConfigSpan, so that
\* each can be below 1, exactly 1 or above it
ConfigSpan == 2
ConfigValues == (1 - ConfigSpan)..ConfigSpan

\* the gateway is driven until MaxTasks tasks and MaxSessions sessions have
\* been created and while no pomodoro count exceeds MaxPomodoroCount
MaxTasks == 2
MaxSessions == 2
MaxPomodoroCount == 1
\* Task objects are followed until the clock reads MaxStamp
MaxStamp == 3
\* the names given to tasks
Names == {"a", "b"}
\* the descriptions and colors a caller gives a Task object
Descriptions == {"", "d"}
Colors == {"blue", "red"}
\* the durations of recorded sessions, in seconds
SessionDurations == {SecondsPerMinute}
\* the session types recorded (SessionType values)
RecordedTypes == {"work", "short_break"}
\* create_session's `completed`: its default, which is what the app passes
CompletedFlags == {TRUE}
\* the settings written
SettingKeys == {"theme"}
SettingValues == {"textual-dark", "textual-light"}
\* the keys and values of the settings a caller of the gateway stores
StoredKeys == {"theme", "current_task_id"}
StoredValues == {"", "textual-dark", "1"}

\* statistics: a calendar day of the model has SecondsPerDay seconds, and the
\* timestamps handed to the calculator lie in the first StatDays days
SecondsPerDay == 2
StatDays == 3
\* the calculator is handed at most MaxStatSessions sessions
MaxStatSessions == 2
\* a PeriodStats object holds at most MaxDailyStats daily entries, each of at
\* most MaxDailyPomodoros pomodoros, or at most MaxTaskStats task entries
MaxDailyStats == 3
MaxDailyPomodoros == 2
MaxTaskStats == 6

\* format_time is handed 0..MaxFormatSeconds seconds (beyond 100 minutes)
MaxFormatSeconds == 6001

\* ------------------------------------------------------- Optional values

\* Python's None / a present value
None == <<>>
Some(v) == <<v>>
Val(o) == o[1]

Max(a, b) == IF a >= b THEN a ELSE b

\* ----------------------------------------------------------------- state

VARIABLES
    work_duration,              \* self.work_duration (seconds)
    short_break_duration,       \* self.short_break_duration (seconds)
    long_break_duration,        \* self.long_break_duration (seconds)
    pomodoros_until_long_break, \* self.pomodoros_until_long_break
    state,                      \* self._state
    completed_pomodoros,        \* self._completed_pomodoros
    session_duration,           \* self._time_remaining: duration given to _start_session
    session_start_time,         \* self._session_start_time (Optional, clock units)
    paused_time_remaining,      \* self._paused_time_remaining (Optional, seconds)
    current_task_id,            \* self._current_task_id (Optional)
    now,                        \* datetime.now(), in clock units
    op,                         \* the engine method called last
    returned,                   \* what that call returned (tick: TRUE/FALSE; else None)
    notified,                   \* the listener calls made during that call, in order
    paused_from                 \* history: the state the last effective pause() suspended

\* the storage gateway (DatabaseManager over the SQLite schema) and its caller
VARIABLES
    tasks,          \* table tasks: id -> row
    sessions,       \* table sessions: id -> row
    settings,       \* table settings: key -> value
    task_seq,       \* sqlite_sequence of tasks (AUTOINCREMENT: the last id given)
    session_seq,    \* sqlite_sequence of sessions
    held,           \* the Task object the caller holds (Optional)
    gw_result,      \* the error the last gateway call raised, "" if none
    connected,      \* self._conn is not None
    got_setting     \* the last get_setting call: its key and what it returned

\* the Shell (PomodoroApp) while it handles a session-complete notification
VARIABLES
    shell_pc,       \* the gateway calls _on_session_complete has still to make
    pending         \* the notification it is handling (Optional)

\* the configuration model and the session-type derivation, as called
VARIABLES
    timer_config,       \* a TimerConfig instance
    validate_result,    \* what validate() did on it: "not_called", "ok" or the error
    from_state_arg,     \* the TimerState handed to SessionType.from_state
    from_state_result   \* what it returned or raised ("not_called" before)

\* the statistics models and the calculator, as called
VARIABLES
    stat_sessions,      \* the session list handed to the calculator
    stat_tasks,         \* the task list handed to calculate_period_stats
    daily_result,       \* what calculate_daily_stats returned (Optional)
    period_stats,       \* a PeriodStats object (Optional)
    most_productive_day_result, \* Some(what the property returned), None before
    top_tasks_result    \* Some(what the property returned), None before

config == <<work_duration, short_break_duration, long_break_duration,
            pomodoros_until_long_break>>
engine == <<state, completed_pomodoros, session_duration, session_start_time,
            paused_time_remaining, current_task_id>>
gateway == <<tasks, sessions, settings, task_seq, session_seq, held,
             gw_result, connected, got_setting>>
\* PomodoroTimer.format_time(seconds), as called with a number
VARIABLES
    format_seconds,     \* the seconds handed to format_time (Optional)
    format_result       \* the string it returned (a sequence of characters),
                        \* <<>> before the call

formatting == <<format_seconds, format_result>>
statistics == <<stat_sessions, stat_tasks, daily_result, period_stats,
                most_productive_day_result, top_tasks_result>>
models == <<timer_config, validate_result, from_state_arg, from_state_result,
            statistics, formatting>>
shell == <<shell_pc, pending>>
\* everything that is not the engine, its clock or its listeners
not_engine == <<gateway, models, shell>>
\* the engine with its listeners (the clock `now` is shared)
timer == <<work_duration, short_break_duration, long_break_duration,
           pomodoros_until_long_break, state, completed_pomodoros,
           session_duration, session_start_time, paused_time_remaining,
           current_task_id, op, returned, notified, paused_from>>
vars == <<work_duration, short_break_duration, long_break_duration,
          pomodoros_until_long_break, state, completed_pomodoros,
          session_duration, session_start_time, paused_time_remaining,
          current_task_id, now, op, returned, notified, paused_from,
          tasks, sessions, settings, task_seq, session_seq, held, gw_result,
          connected, got_setting, shell_pc, pending,
          timer_config, validate_result, from_state_arg, from_state_result,
          stat_sessions, stat_tasks, daily_result, period_stats,
          most_productive_day_result, top_tasks_result,
          format_seconds, format_result>>

\* TimerState
TimerState == {"IDLE", "WORKING", "SHORT_BREAK", "LONG_BREAK", "PAUSED"}

\* TimerState.is_active
is_active(s) == s \in {"WORKING", "SHORT_BREAK", "LONG_BREAK"}

\* mutant of from_state: both breaks give the short-break type
FromStateOneBreak(s) ==
    IF s = "WORKING" THEN "work"
    ELSE IF s = "SHORT_BREAK" THEN "short_break"
    ELSE IF s = "LONG_BREAK" THEN "short_break"
    ELSE "ValueError"

\* SessionType.from_state; "ValueError" stands for the raise
from_state(s) ==
    IF s = "WORKING" THEN "work"
    ELSE IF s = "SHORT_BREAK" THEN "short_break"
    ELSE IF s = "LONG_BREAK" THEN "long_break"
    ELSE "ValueError"

\* an elapsed time that is never seen to grow
WholeSecondsStopped(units) == 0

\* int((datetime.now() - start).total_seconds()) for a clock that has not
\* gone backwards: the whole seconds in `units` clock units
WholeSeconds(units) == units \div TicksPerSecond

\* mutant of TimeRemainingAt: the Paused case is missing, so a paused engine
\* keeps computing from the wall clock
TimeRemainingAtLive(st, sd, sst, ptr, t) ==
    IF st = "IDLE" THEN 0
    ELSE IF sst = None THEN 0
    ELSE Max(0, sd - WholeSeconds(t - Val(sst)))

\* the time_remaining property, read in the state (st, sd, sst, ptr) at time t
TimeRemainingAt(st, sd, sst, ptr, t) ==
    IF st = "PAUSED" THEN (IF ptr = None THEN 0 ELSE Val(ptr))
    ELSE IF st = "IDLE" THEN 0
    ELSE IF sst = None THEN 0
    ELSE Max(0, sd - WholeSeconds(t - Val(sst)))

\* PomodoroTimer.time_remaining in the current state
time_remaining ==
    TimeRemainingAt(state, session_duration, session_start_time,
                    paused_time_remaining, now)

\* mutant of TotalDurationOf: the duration the running session was last
\* started with is reported instead of the configured one
TotalDurationOfStarted(st) ==
    IF is_active(st) THEN session_duration ELSE 0

\* PomodoroTimer.total_duration for state st
TotalDurationOf(st) ==
    IF st = "WORKING" THEN work_duration
    ELSE IF st = "SHORT_BREAK" THEN short_break_duration
    ELSE IF st = "LONG_BREAK" THEN long_break_duration
    ELSE 0

\* PomodoroTimer.total_duration in the current state
total_duration == TotalDurationOf(state)

\* the listener calls
StateChange(s) == [kind |-> "state_change", state |-> s]
TickNote(r) == [kind |-> "tick", remaining |-> r]
SessionComplete(ty, d, t) ==
    [kind |-> "session_complete", session_type |-> ty, duration |-> d, task_id |-> t]

\* ------------------------------------------------------------------ Init

\* PomodoroTimer(w, s, l, n): the engine as constructed
EngineConstructed(w, s, l, n) ==
    /\ work_duration = w * SecondsPerMinute
    /\ short_break_duration = s * SecondsPerMinute
    /\ long_break_duration = l * SecondsPerMinute
    /\ pomodoros_until_long_break = n
    /\ state = "IDLE"
    /\ completed_pomodoros = 0
    /\ session_duration = 0
    /\ session_start_time = None
    /\ paused_time_remaining = None
    /\ current_task_id = None
    /\ op = "init"
    /\ returned = None
    /\ notified = <<>>
    /\ paused_from = None

\* a database file just initialized (initialize_database), nothing held
GatewayOpened ==
    /\ tasks = {}
    /\ sessions = {}
    /\ settings = <<>>
    /\ task_seq = 0
    /\ session_seq = 0
    /\ held = None
    /\ gw_result = ""
    /\ connected = FALSE
    /\ got_setting = None

\* the Shell is handling no notification
ShellIdle ==
    /\ shell_pc = <<>>
    /\ pending = None

\* no statistics computed yet
StatisticsUntouched ==
    /\ stat_sessions = <<>>
    /\ stat_tasks = <<>>
    /\ daily_result = None
    /\ period_stats = None
    /\ most_productive_day_result = None
    /\ top_tasks_result = None

\* format_time not called yet
FormattingUntouched ==
    /\ format_seconds = None
    /\ format_result = <<>>

\* TimerConfig.default(), validate() and from_state() not called yet
ModelsUntouched ==
    /\ timer_config = [work_duration |-> 25, short_break_duration |-> 5,
                       long_break_duration |-> 15, pomodoros_until_long_break |-> 4]
    /\ validate_result = "not_called"
    /\ from_state_arg = "IDLE"
    /\ from_state_result = "not_called"
    /\ StatisticsUntouched
    /\ FormattingUntouched

Init ==
    /\ \E w \in WorkMinutes, s \in ShortBreakMinutes, l \in LongBreakMinutes,
          n \in LongBreakThresholds : EngineConstructed(w, s, l, n)
    /\ now = 0
    /\ GatewayOpened
    /\ ModelsUntouched
    /\ ShellIdle

\* --------------------------------------------------------------- actions

\* _start_session(new_state, duration) followed by nothing else
StartSessionEffect(new_state, duration) ==
    /\ state' = new_state
    /\ session_duration' = duration
    /\ session_start_time' = Some(now)
    /\ notified' = <<StateChange(new_state)>>

\* start_work_session()
StartWorkSession ==
    /\ op' = "start_work_session"
    /\ StartSessionEffect("WORKING", work_duration)
    /\ returned' = None
    /\ UNCHANGED <<not_engine, config, completed_pomodoros, paused_time_remaining,
                   current_task_id, now, paused_from>>

\* start_short_break()
StartShortBreak ==
    /\ op' = "start_short_break"
    /\ StartSessionEffect("SHORT_BREAK", short_break_duration)
    /\ returned' = None
    /\ UNCHANGED <<not_engine, config, completed_pomodoros, paused_time_remaining,
                   current_task_id, now, paused_from>>

\* start_long_break()
StartLongBreak ==
    /\ op' = "start_long_break"
    /\ StartSessionEffect("LONG_BREAK", long_break_duration)
    /\ returned' = None
    /\ UNCHANGED <<not_engine, config, completed_pomodoros, paused_time_remaining,
                   current_task_id, now, paused_from>>

\* mutant of NextBreakIsLong: the session in progress is not counted
NextBreakIsLongNoInc ==
    completed_pomodoros % pomodoros_until_long_break = 0

\* start_next_session(): "Check if it's time for a long break"
NextBreakIsLong ==
    (completed_pomodoros + 1) % pomodoros_until_long_break = 0

\* a start_next_session() that starts a work session from Paused as it
\* does from Idle
StartNextSessionFromPaused ==
    /\ op' = "start_next_session"
    /\ returned' = None
    /\ IF state = "WORKING"
       THEN IF NextBreakIsLong
            THEN StartSessionEffect("LONG_BREAK", long_break_duration)
            ELSE StartSessionEffect("SHORT_BREAK", short_break_duration)
       ELSE StartSessionEffect("WORKING", work_duration)
    /\ UNCHANGED <<not_engine, config, completed_pomodoros, paused_time_remaining,
                   current_task_id, now, paused_from>>

\* start_next_session()
StartNextSession ==
    /\ op' = "start_next_session"
    /\ returned' = None
    /\ IF state = "IDLE"
       THEN StartSessionEffect("WORKING", work_duration)
       ELSE IF state = "WORKING"
       THEN IF NextBreakIsLong
            THEN StartSessionEffect("LONG_BREAK", long_break_duration)
            ELSE StartSessionEffect("SHORT_BREAK", short_break_duration)
       ELSE IF state \in {"SHORT_BREAK", "LONG_BREAK"}
       THEN StartSessionEffect("WORKING", work_duration)
       ELSE /\ notified' = <<>>
            /\ UNCHANGED <<state, session_duration, session_start_time>>
    /\ UNCHANGED <<not_engine, config, completed_pomodoros, paused_time_remaining,
                   current_task_id, now, paused_from>>

\* mutant of PauseEffect: pause() without its test for an active state
PauseEffectUnguarded ==
    /\ paused_time_remaining' = Some(time_remaining)
    /\ state' = "PAUSED"
    /\ notified' = <<StateChange("PAUSED")>>
    /\ paused_from' = Some(state)
    /\ UNCHANGED <<session_duration, session_start_time>>

\* the body of pause()
PauseEffect ==
    IF is_active(state)
    THEN /\ paused_time_remaining' = Some(time_remaining)
         /\ state' = "PAUSED"
         /\ notified' = <<StateChange("PAUSED")>>
         /\ paused_from' = Some(state)
         /\ UNCHANGED <<session_duration, session_start_time>>
    ELSE /\ notified' = <<>>
         /\ UNCHANGED <<state, session_duration, session_start_time,
                        paused_time_remaining, paused_from>>

\* the state resume() chooses to resume into
ResumeState ==
    IF completed_pomodoros = 0 \/ session_duration <= work_duration
    THEN "WORKING"
    ELSE IF Val(paused_time_remaining) <= short_break_duration
    THEN "SHORT_BREAK"
    ELSE "LONG_BREAK"

\* the body of resume()
ResumeEffect ==
    IF state = "PAUSED" /\ paused_time_remaining # None
    THEN /\ StartSessionEffect(ResumeState, Val(paused_time_remaining))
         /\ paused_time_remaining' = None
         /\ UNCHANGED paused_from
    ELSE /\ notified' = <<>>
         /\ UNCHANGED <<state, session_duration, session_start_time,
                        paused_time_remaining, paused_from>>

\* pause()
Pause ==
    /\ op' = "pause"
    /\ returned' = None
    /\ PauseEffect
    /\ UNCHANGED <<not_engine, config, completed_pomodoros, current_task_id, now>>

\* resume()
Resume ==
    /\ op' = "resume"
    /\ returned' = None
    /\ ResumeEffect
    /\ UNCHANGED <<not_engine, config, completed_pomodoros, current_task_id, now>>

\* toggle_pause()
TogglePause ==
    /\ op' = "toggle_pause"
    /\ returned' = None
    /\ IF state = "PAUSED"
       THEN ResumeEffect
       ELSE IF is_active(state)
       THEN PauseEffect
       ELSE /\ notified' = <<>>
            /\ UNCHANGED <<state, session_duration, session_start_time,
                           paused_time_remaining, paused_from>>
    /\ UNCHANGED <<not_engine, config, completed_pomodoros, current_task_id, now>>

\* mutant of StopEffect: the remaining-time snapshot of a paused session
\* survives the stop
StopEffectKeepingSnapshot(before) ==
    /\ session_start_time' = None
    /\ session_duration' = 0
    /\ UNCHANGED paused_time_remaining
    /\ state' = "IDLE"
    /\ notified' = Append(before, StateChange("IDLE"))

\* the body of stop(), with `before` the listener calls already made in this call
StopEffect(before) ==
    /\ session_start_time' = None
    /\ session_duration' = 0
    /\ paused_time_remaining' = None
    /\ state' = "IDLE"
    /\ notified' = Append(before, StateChange("IDLE"))

\* stop()
Stop ==
    /\ op' = "stop"
    /\ returned' = None
    /\ StopEffect(<<>>)
    /\ UNCHANGED <<not_engine, config, completed_pomodoros, current_task_id, now, paused_from>>

\* reset()
Reset ==
    /\ op' = "reset"
    /\ returned' = None
    /\ StopEffect(<<>>)
    /\ completed_pomodoros' = 0
    /\ UNCHANGED <<not_engine, config, current_task_id, now, paused_from>>

\* mutant of CompletedAfterSession: every finalized session counts, breaks
\* included
CompletedAfterSessionAlways == completed_pomodoros + 1

\* the counter after _complete_session() has run in the current state
CompletedAfterSession ==
    IF state = "WORKING" THEN completed_pomodoros + 1 ELSE completed_pomodoros

\* mutant of CompletionNote: the duration reported is the one the session was
\* last started with, not the configured one
CompletionNoteStarted ==
    SessionComplete(from_state(state), session_duration,
                    IF state = "WORKING" THEN current_task_id ELSE None)

\* the arguments _complete_session() hands to the session-complete listener
CompletionNote ==
    SessionComplete(from_state(state), total_duration,
                    IF state = "WORKING" THEN current_task_id ELSE None)

\* mutant of CompleteSession: stop() runs, and notifies, before the
\* session-complete listener is called
CompleteSessionStopFirst(before) ==
    /\ completed_pomodoros' = CompletedAfterSession
    /\ session_start_time' = None
    /\ session_duration' = 0
    /\ paused_time_remaining' = None
    /\ state' = "IDLE"
    /\ notified' = Append(Append(before, StateChange("IDLE")), CompletionNote)

\* _complete_session(), with `before` the listener calls already made in this call
CompleteSession(before) ==
    /\ completed_pomodoros' = CompletedAfterSession
    /\ StopEffect(Append(before, CompletionNote))

\* mutant of TickNotes: no tick notification for a session that has run out
TickNotesUnlessOver(remaining) ==
    IF remaining <= 0 THEN <<>> ELSE <<TickNote(remaining)>>

\* the listener calls tick() makes before it looks at the remaining time
TickNotes(remaining) == <<TickNote(remaining)>>

\* mutant of SessionOver: the boundary is missed (< where the code has <=)
SessionOverStrict(remaining) == remaining < 0

\* mutant of TickEffect: a tick that does not finalize counts the session's
\* duration down by one second, as a counter-based timer would
TickEffectCountingDown ==
    IF ~is_active(state)
    THEN /\ returned' = Some(FALSE)
         /\ notified' = <<>>
         /\ UNCHANGED engine
    ELSE IF time_remaining <= 0
    THEN /\ CompleteSession(TickNotes(time_remaining))
         /\ returned' = Some(TRUE)
         /\ UNCHANGED current_task_id
    ELSE /\ returned' = Some(FALSE)
         /\ notified' = TickNotes(time_remaining)
         /\ session_duration' = session_duration - 1
         /\ UNCHANGED <<state, completed_pomodoros, session_start_time,
                        paused_time_remaining, current_task_id>>

\* a test that takes every running session for one that has run out
SessionOverAnyTime(remaining) == remaining >= 0

\* a tick() without its test for an active state
TickEffectUnguarded ==
    IF time_remaining <= 0
    THEN /\ CompleteSession(TickNotes(time_remaining))
         /\ returned' = Some(TRUE)
         /\ UNCHANGED current_task_id
    ELSE /\ returned' = Some(FALSE)
         /\ notified' = TickNotes(time_remaining)
         /\ UNCHANGED engine

\* tick(): the test that the session has run out
SessionOver(remaining) == remaining <= 0

\* the body of tick()
TickEffect ==
    IF ~is_active(state)
    THEN /\ returned' = Some(FALSE)
         /\ notified' = <<>>
         /\ UNCHANGED engine
    ELSE IF SessionOver(time_remaining)
    THEN /\ CompleteSession(TickNotes(time_remaining))
         /\ returned' = Some(TRUE)
         /\ UNCHANGED current_task_id
    ELSE /\ returned' = Some(FALSE)
         /\ notified' = TickNotes(time_remaining)
         /\ UNCHANGED engine

\* tick()
Tick ==
    /\ op' = "tick"
    /\ TickEffect
    /\ UNCHANGED <<not_engine, config, now, paused_from>>

\* set_current_task(task_id)
SetCurrentTask ==
    \E t \in {None} \cup {Some(i) : i \in TaskIds} :
        /\ op' = "set_current_task"
        /\ returned' = None
        /\ notified' = <<>>
        /\ current_task_id' = t
        /\ UNCHANGED <<not_engine, config, state, completed_pomodoros, session_duration,
                       session_start_time, paused_time_remaining, now, paused_from>>

\* the wall clock moves forward by d units between two calls
AdvanceClock ==
    \E d \in Delays :
        /\ now + d <= MaxNow
        /\ now' = now + d
        /\ UNCHANGED <<not_engine, config, engine, op, returned, notified, paused_from>>

Next ==
    \/ StartWorkSession
    \/ StartShortBreak
    \/ StartLongBreak
    \/ StartNextSession
    \/ Pause
    \/ Resume
    \/ TogglePause
    \/ Stop
    \/ Reset
    \/ Tick
    \/ SetCurrentTask
    \/ AdvanceClock

Spec == Init /\ [][Next]_vars

\* ------------------------------------------------- the tick loop

\* an engine whose long break is longer than its work session
LiveInit ==
    /\ EngineConstructed(1, 1, 2, 2)
    /\ now = 0
    /\ GatewayOpened
    /\ ModelsUntouched
    /\ ShellIdle

\* an interval is started when none is in progress, so that no interval is
\* replaced
LiveStart ==
    /\ state = "IDLE"
    /\ \/ StartWorkSession
       \/ StartShortBreak
       \/ StartLongBreak
       \/ StartNextSession

\* the engine driven without stop() and reset()
LiveNext ==
    \/ LiveStart
    \/ Pause
    \/ Resume
    \/ TogglePause
    \/ Tick
    \/ SetCurrentTask
    \/ AdvanceClock

\* set_interval(1.0, self._tick_callback): the wall clock keeps advancing
\* (as far as the model follows it) and tick() keeps being called
TickLoop ==
    /\ WF_vars(AdvanceClock)
    /\ WF_vars(Tick)

LiveSpec == LiveInit /\ [][LiveNext]_vars /\ TickLoop

\* ------------------------------------------ PomodoroTimer.format_time

DigitChars == <<"0", "1", "2", "3", "4", "5", "6", "7", "8", "9">>

\* the decimal digits of a non-negative integer, as characters
RECURSIVE Decimal(_)
Decimal(n) ==
    IF n < 10
    THEN <<DigitChars[n + 1]>>
    ELSE Decimal(n \div 10) \o <<DigitChars[(n % 10) + 1]>>

\* the format spec 02d: at least two digits, padded with zeros
ZeroPadded(n) ==
    LET digits == Decimal(n)
    IN  IF Len(digits) < 2 THEN <<"0">> \o digits ELSE digits

\* minutes that start again at zero with each hour
FormatMinutesOfHour(seconds) == (seconds \div 60) % 60

\* minutes = seconds // 60
FormatMinutes(seconds) == seconds \div 60

\* secs = seconds % 60
FormatSecs(seconds) == seconds % 60

\* PomodoroTimer.format_time(seconds)
format_time(seconds) ==
    LET given == IF seconds = None THEN time_remaining ELSE Val(seconds)
    IN  ZeroPadded(FormatMinutes(given)) \o <<":">> \o ZeroPadded(FormatSecs(given))

\* an engine just constructed and the seconds its format_time is handed
\* (None: the remaining time is formatted)
FormatInit ==
    /\ EngineConstructed(25, 5, 15, 4)
    /\ now = 0
    /\ GatewayOpened
    /\ ShellIdle
    /\ timer_config = [work_duration |-> 25, short_break_duration |-> 5,
                       long_break_duration |-> 15, pomodoros_until_long_break |-> 4]
    /\ validate_result = "not_called"
    /\ from_state_arg = "IDLE"
    /\ from_state_result = "not_called"
    /\ StatisticsUntouched
    /\ format_seconds \in {None} \cup {Some(n) : n \in 0..MaxFormatSeconds}
    /\ format_result = <<>>

\* timer.format_time(seconds)
FormatTime ==
    /\ format_result' = format_time(format_seconds)
    /\ UNCHANGED <<timer_config, validate_result, from_state_arg,
                   from_state_result, statistics, format_seconds>>
    /\ UNCHANGED <<timer, now, gateway, shell>>

FormatSpec == FormatInit /\ [][FormatTime]_vars

\* --------------------------------------------- gateway: DatabaseManager

\* Task.from_dict(dict(row)): the Task object of a row of tasks
TaskOfRow(r) ==
    [id |-> Some(r.id), name |-> r.name, description |-> r.description,
     created_at |-> r.created_at, completed_at |-> r.completed_at,
     color |-> r.color, pomodoro_count |-> r.pomodoro_count]

\* get_task(task_id)
get_task(task_id) ==
    LET rows == {r \in tasks : r.id = task_id}
    IN  IF rows = {} THEN None ELSE Some(TaskOfRow(CHOOSE r \in rows : TRUE))

\* get_session(session_id)
get_session(session_id) ==
    LET rows == {r \in sessions : r.id = session_id}
    IN  IF rows = {} THEN None ELSE Some(CHOOSE r \in rows : TRUE)

\* get_sessions_for_task(task_id), as the set of the sessions listed
get_sessions_for_task(task_id) == {r \in sessions : r.task_id = Some(task_id)}

\* get_setting(key)
get_setting(key) ==
    IF key \in DOMAIN settings THEN Some(settings[key]) ELSE None

\* the database as the engine's specification runs: opened and left alone
GatewayInit ==
    /\ EngineConstructed(25, 5, 15, 4)
    /\ now = 0
    /\ GatewayOpened
    /\ ModelsUntouched
    /\ ShellIdle

\* create_task(name): description and color take their defaults
CreateTask ==
    \E name \in Names :
        /\ task_seq < MaxTasks
        /\ LET row == [id |-> task_seq + 1, name |-> name, description |-> "",
                       created_at |-> now, completed_at |-> None,
                       color |-> "blue", pomodoro_count |-> 0]
           IN  /\ tasks' = tasks \cup {row}
               /\ held' = Some(TaskOfRow(row))
        /\ task_seq' = task_seq + 1
        /\ gw_result' = ""
        /\ UNCHANGED <<sessions, settings, session_seq>>
        /\ connected' = TRUE
        /\ UNCHANGED got_setting
        /\ UNCHANGED <<timer, now, models, shell>>

\* get_task(task_id), the caller keeping what it returns
GetTask ==
    \E task_id \in 1..MaxTasks :
        /\ held' = get_task(task_id)
        /\ gw_result' = ""
        /\ UNCHANGED <<tasks, sessions, settings, task_seq, session_seq>>
        /\ connected' = TRUE
        /\ UNCHANGED got_setting
        /\ UNCHANGED <<timer, now, models, shell>>

\* Task(name=name): a Task object that was never stored
NewTask ==
    \E name \in Names :
        /\ held' = Some([id |-> None, name |-> name, description |-> "",
                         created_at |-> now, completed_at |-> None,
                         color |-> "blue", pomodoro_count |-> 0])
        /\ gw_result' = ""
        /\ UNCHANGED <<tasks, sessions, settings, task_seq, session_seq>>
        /\ UNCHANGED <<connected, got_setting>>
        /\ UNCHANGED <<timer, now, models, shell>>

\* task.name = name, on the Task object held
RenameHeld ==
    \E name \in Names :
        /\ held # None
        /\ held' = Some([Val(held) EXCEPT !.name = name])
        /\ gw_result' = ""
        /\ UNCHANGED <<tasks, sessions, settings, task_seq, session_seq>>
        /\ UNCHANGED <<connected, got_setting>>
        /\ UNCHANGED <<timer, now, models, shell>>

\* task.increment_pomodoros(), on the Task object held
IncrementHeld ==
    /\ held # None
    /\ Val(held).pomodoro_count < MaxPomodoroCount
    /\ held' = Some([Val(held) EXCEPT !.pomodoro_count = @ + 1])
    /\ gw_result' = ""
    /\ UNCHANGED <<tasks, sessions, settings, task_seq, session_seq>>
    /\ UNCHANGED <<connected, got_setting>>
    /\ UNCHANGED <<timer, now, models, shell>>

\* mutant of TasksAfterUpdate: the UPDATE has no WHERE clause
TasksAfterUpdateEveryRow(task) ==
    {[r EXCEPT !.name = task.name, !.description = task.description,
               !.completed_at = task.completed_at, !.color = task.color,
               !.pomodoro_count = task.pomodoro_count] : r \in tasks}

\* update_task: UPDATE tasks SET name, description, completed_at, color,
\* pomodoro_count WHERE id = task.id
TasksAfterUpdate(task) ==
    {IF r.id = Val(task.id)
     THEN [r EXCEPT !.name = task.name, !.description = task.description,
                    !.completed_at = task.completed_at, !.color = task.color,
                    !.pomodoro_count = task.pomodoro_count]
     ELSE r : r \in tasks}

\* update_task(task), with the Task object held
UpdateTask ==
    /\ held # None
    /\ IF Val(held).id = None
       THEN /\ gw_result' = "ValueError"
            /\ UNCHANGED <<tasks, connected>>
       ELSE /\ gw_result' = ""
            /\ tasks' = TasksAfterUpdate(Val(held))
            /\ connected' = TRUE
    /\ UNCHANGED <<sessions, settings, task_seq, session_seq, held>>
    /\ UNCHANGED got_setting
    /\ UNCHANGED <<timer, now, models, shell>>

\* FOREIGN KEY (task_id) REFERENCES tasks (id) ON DELETE SET NULL, with
\* PRAGMA foreign_keys = ON: the sessions table after the task row has gone
SessionsAfterTaskDelete(task_id) ==
    {IF r.task_id = Some(task_id) THEN [r EXCEPT !.task_id = None] ELSE r :
        r \in sessions}

\* delete_task(task_id)
DeleteTask ==
    \E task_id \in 1..MaxTasks :
        /\ tasks' = {r \in tasks : r.id # task_id}
        /\ sessions' = SessionsAfterTaskDelete(task_id)
        /\ gw_result' = ""
        /\ UNCHANGED <<settings, task_seq, session_seq, held>>
        /\ connected' = TRUE
        /\ UNCHANGED got_setting
        /\ UNCHANGED <<timer, now, models, shell>>

\* increment_task_pomodoros(task_id)
IncrementTaskPomodoros ==
    \E task_id \in 1..MaxTasks :
        /\ \A r \in tasks : r.id = task_id => r.pomodoro_count < MaxPomodoroCount
        /\ tasks' = {IF r.id = task_id
                     THEN [r EXCEPT !.pomodoro_count = @ + 1]
                     ELSE r : r \in tasks}
        /\ gw_result' = ""
        /\ UNCHANGED <<sessions, settings, task_seq, session_seq, held>>
        /\ connected' = TRUE
        /\ UNCHANGED got_setting
        /\ UNCHANGED <<timer, now, models, shell>>

\* create_session(task_id, duration, session_type, completed); the insert
\* fails on the foreign key when task_id names no task
CreateSession ==
    \E task_id \in {None} \cup {Some(i) : i \in 1..MaxTasks},
       duration \in SessionDurations,
       session_type \in RecordedTypes,
       completed \in CompletedFlags :
        /\ session_seq < MaxSessions
        /\ IF task_id # None /\ get_task(Val(task_id)) = None
           THEN /\ gw_result' = "IntegrityError"
                /\ UNCHANGED <<sessions, session_seq>>
           ELSE LET row == [id |-> session_seq + 1, task_id |-> task_id,
                            start_time |-> now,
                            end_time |-> IF completed THEN Some(now) ELSE None,
                            duration |-> duration, completed |-> completed,
                            session_type |-> session_type]
                IN  /\ sessions' = sessions \cup {row}
                    /\ session_seq' = session_seq + 1
                    /\ gw_result' = ""
        /\ UNCHANGED <<tasks, settings, task_seq, held>>
        /\ connected' = TRUE
        /\ UNCHANGED got_setting
        /\ UNCHANGED <<timer, now, models, shell>>

\* mutant of SettingsAfterSet: INSERT OR IGNORE, a key already stored keeps
\* its value
SettingsAfterInsertOrIgnore(key, value) ==
    [k \in DOMAIN settings \cup {key} |->
        IF k \in DOMAIN settings THEN settings[k] ELSE value]

\* INSERT INTO settings (key, value) VALUES (?, ?) ON CONFLICT(key) DO
\* UPDATE SET value = excluded.value: the settings table afterwards
SettingsAfterSet(key, value) ==
    [k \in DOMAIN settings \cup {key} |->
        IF k = key THEN value ELSE settings[k]]

\* set_setting(key, value)
SetSettingTo(key, value) ==
    /\ settings' = SettingsAfterSet(key, value)
    /\ gw_result' = ""
    /\ connected' = TRUE
    /\ UNCHANGED <<tasks, sessions, task_seq, session_seq, held, got_setting>>
    /\ UNCHANGED <<timer, now, models, shell>>

\* set_setting("theme", self.theme), as the app calls it
SetSetting ==
    \E key \in SettingKeys, value \in SettingValues : SetSettingTo(key, value)

\* set_setting(key, value), as any caller may
PutSetting ==
    \E key \in StoredKeys, value \in StoredValues : SetSettingTo(key, value)

\* get_setting(key), the caller seeing what it returns
GetSettingOf(key) ==
    /\ got_setting' = Some([key |-> key, value |-> get_setting(key)])
    /\ gw_result' = ""
    /\ connected' = TRUE
    /\ UNCHANGED <<tasks, sessions, settings, task_seq, session_seq, held>>
    /\ UNCHANGED <<timer, now, models, shell>>

GetSetting == \E key \in StoredKeys : GetSettingOf(key)

\* close(): the connection is closed; the next call opens the file again
Close ==
    /\ connected' = FALSE
    /\ UNCHANGED <<tasks, sessions, settings, task_seq, session_seq, held,
                   gw_result, got_setting>>
    /\ UNCHANGED <<timer, now, models, shell>>

GatewayNext ==
    \/ CreateTask
    \/ GetTask
    \/ NewTask
    \/ RenameHeld
    \/ IncrementHeld
    \/ UpdateTask
    \/ DeleteTask
    \/ IncrementTaskPomodoros
    \/ CreateSession
    \/ SetSetting

GatewaySpec == GatewayInit /\ [][GatewayNext]_vars

\* ------------------------------------------------------- models: Task

\* Task.is_completed
is_completed(task) == task.completed_at # None

\* mutant of complete: the timestamp is taken again on every call
CompleteAgain(task, t) == [task EXCEPT !.completed_at = Some(t)]

\* Task.complete(), called when the clock reads t: the object afterwards
complete(task, t) ==
    IF ~is_completed(task) THEN [task EXCEPT !.completed_at = Some(t)] ELSE task

\* Task.uncomplete(): the object afterwards
uncomplete(task) == [task EXCEPT !.completed_at = None]

\* task.complete(), on the Task object held
CompleteHeld ==
    /\ held # None
    /\ held' = Some(complete(Val(held), now))
    /\ UNCHANGED <<tasks, sessions, settings, task_seq, session_seq, gw_result>>
    /\ UNCHANGED <<connected, got_setting>>
    /\ UNCHANGED <<timer, now, models, shell>>

\* task.uncomplete(), on the Task object held
UncompleteHeld ==
    /\ held # None
    /\ held' = Some(uncomplete(Val(held)))
    /\ UNCHANGED <<tasks, sessions, settings, task_seq, session_seq, gw_result>>
    /\ UNCHANGED <<connected, got_setting>>
    /\ UNCHANGED <<timer, now, models, shell>>

\* the wall clock moves on between two calls on a Task
TaskLater ==
    /\ now < MaxStamp
    /\ now' = now + 1
    /\ UNCHANGED <<timer, gateway, models, shell>>

\* a Task object as constructed, Task(id=id, name=name), and no database
TaskInit ==
    /\ EngineConstructed(25, 5, 15, 4)
    /\ now = 0
    /\ ModelsUntouched
    /\ ShellIdle
    /\ tasks = {}
    /\ sessions = {}
    /\ settings = <<>>
    /\ task_seq = 0
    /\ session_seq = 0
    /\ gw_result = ""
    /\ connected = FALSE
    /\ got_setting = None
    /\ \E id \in {None} \cup {Some(i) : i \in 1..MaxTasks}, name \in Names :
          held = Some([id |-> id, name |-> name, description |-> "",
                       created_at |-> now, completed_at |-> None,
                       color |-> "blue", pomodoro_count |-> 0])

TaskNext ==
    \/ CompleteHeld
    \/ UncompleteHeld
    \/ IncrementHeld
    \/ TaskLater

TaskSpec == TaskInit /\ [][TaskNext]_vars

SettingsNext ==
    \/ PutSetting
    \/ GetSetting
    \/ Close

SettingsSpec == GatewayInit /\ [][SettingsNext]_vars

\* task.description = description, on the Task object held
DescribeHeld ==
    \E description \in Descriptions :
        /\ held # None
        /\ held' = Some([Val(held) EXCEPT !.description = description])
        /\ UNCHANGED <<tasks, sessions, settings, task_seq, session_seq,
                       gw_result, connected, got_setting>>
        /\ UNCHANGED <<timer, now, models, shell>>

\* task.color = color, on the Task object held
RecolorHeld ==
    \E color \in Colors :
        /\ held # None
        /\ held' = Some([Val(held) EXCEPT !.color = color])
        /\ UNCHANGED <<tasks, sessions, settings, task_seq, session_seq,
                       gw_result, connected, got_setting>>
        /\ UNCHANGED <<timer, now, models, shell>>

\* the task operations of the gateway, with a caller that edits every field
\* of the Task object it holds before it hands it to update_task
UpdateNext ==
    \/ CreateTask
    \/ GetTask
    \/ NewTask
    \/ RenameHeld
    \/ DescribeHeld
    \/ RecolorHeld
    \/ CompleteHeld
    \/ UncompleteHeld
    \/ IncrementHeld
    \/ UpdateTask
    \/ IncrementTaskPomodoros
    \/ DeleteTask

UpdateSpec == GatewayInit /\ [][UpdateNext]_vars

\* ------------------------------------------- models: TimerConfig, SessionType

\* the fields of TimerConfig, in the order validate() tests them
ConfigFields ==
    <<"work_duration", "short_break_duration", "long_break_duration",
      "pomodoros_until_long_break">>

\* mutant of validate: the long-break threshold is tested first
ValidateThresholdFirst(c) ==
    IF c.pomodoros_until_long_break < 1
    THEN "ValueError: Pomodoros until long break must be at least 1"
    ELSE IF c.work_duration < 1
    THEN "ValueError: Work duration must be at least 1 minute"
    ELSE IF c.short_break_duration < 1
    THEN "ValueError: Short break duration must be at least 1 minute"
    ELSE IF c.long_break_duration < 1
    THEN "ValueError: Long break duration must be at least 1 minute"
    ELSE "ok"

\* TimerConfig.validate(): the error it raises, "ok" when it returns
validate(c) ==
    IF c.work_duration < 1
    THEN "ValueError: Work duration must be at least 1 minute"
    ELSE IF c.short_break_duration < 1
    THEN "ValueError: Short break duration must be at least 1 minute"
    ELSE IF c.long_break_duration < 1
    THEN "ValueError: Long break duration must be at least 1 minute"
    ELSE IF c.pomodoros_until_long_break < 1
    THEN "ValueError: Pomodoros until long break must be at least 1"
    ELSE "ok"

\* a TimerConfig with any field values: the dataclass accepts them all
ModelsInit ==
    /\ EngineConstructed(25, 5, 15, 4)
    /\ now = 0
    /\ GatewayOpened
    /\ ShellIdle
    /\ timer_config \in [{ConfigFields[i] : i \in DOMAIN ConfigFields} -> ConfigValues]
    /\ validate_result = "not_called"
    /\ from_state_arg = "IDLE"
    /\ from_state_result = "not_called"
    /\ StatisticsUntouched
    /\ FormattingUntouched

\* config.validate()
Validate ==
    /\ validate_result' = validate(timer_config)
    /\ UNCHANGED <<timer_config, from_state_arg, from_state_result, statistics, formatting>>
    /\ UNCHANGED <<timer, now, gateway, shell>>

\* SessionType.from_state(s)
FromState ==
    \E s \in TimerState :
        /\ from_state_arg' = s
        /\ from_state_result' = from_state(s)
        /\ UNCHANGED <<timer_config, validate_result, statistics, formatting>>
        /\ UNCHANGED <<timer, now, gateway, shell>>

ModelsNext ==
    \/ Validate
    \/ FromState

ModelsSpec == ModelsInit /\ [][ModelsNext]_vars

\* --------------------------------- models: statistics (StatisticsCalculator)

\* timestamps are clock units since midnight of day 0; a day has DayUnits
DayUnits == SecondsPerDay * TicksPerSecond
StatTimes == 0..(StatDays * DayUnits - 1)

\* datetime(date.year, date.month, date.day, 0, 0, 0)
day_start(date) == (date \div DayUnits) * DayUnits
\* a day that ends with its last instant, not with its last whole second
DayEndLastInstant(date) == day_start(date) + DayUnits - 1

\* datetime(date.year, date.month, date.day, 23, 59, 59)
day_end(date) == day_start(date) + (SecondsPerDay - 1) * TicksPerSecond
\* `if session.task_id:` -- None and 0 are falsy
Truthy(task_id) == task_id # None /\ Val(task_id) # 0

\* DailyStats(date=date)
DailyStats(date) ==
    [date |-> date, total_pomodoros |-> 0, total_duration |-> 0,
     work_sessions |-> 0, break_sessions |-> 0, completed_sessions |-> 0,
     tasks_worked_on |-> 0]

\* PeriodStats(start_date=.., end_date=..), lists set by __post_init__
PeriodStats(start_date, end_date) ==
    [start_date |-> start_date, end_date |-> end_date, total_pomodoros |-> 0,
     total_duration |-> 0, work_sessions |-> 0, break_sessions |-> 0,
     completed_sessions |-> 0, daily_stats |-> <<>>, task_stats |-> <<>>]

\* the counting done for one session, in calculate_daily_stats and in
\* calculate_period_stats alike
Counted(stats, session) ==
    LET summed == [stats EXCEPT !.total_duration = @ + session.duration]
        typed == IF session.session_type = "work"
                 THEN [summed EXCEPT !.work_sessions = @ + 1,
                                     !.total_pomodoros = @ + 1]
                 ELSE [summed EXCEPT !.break_sessions = @ + 1]
    IN  IF session.completed
        THEN [typed EXCEPT !.completed_sessions = @ + 1]
        ELSE typed

\* the loop of calculate_daily_stats over day_sessions
RECURSIVE DailyLoop(_, _, _)
DailyLoop(day_sessions, stats, task_ids) ==
    IF day_sessions = <<>>
    THEN [stats EXCEPT !.tasks_worked_on = Cardinality(task_ids)]
    ELSE LET session == Head(day_sessions)
         IN  DailyLoop(Tail(day_sessions), Counted(stats, session),
                       IF session.session_type = "work" /\ Truthy(session.task_id)
                       THEN task_ids \cup {Val(session.task_id)}
                       ELSE task_ids)

\* StatisticsCalculator.calculate_daily_stats(sessions, date)
calculate_daily_stats(sessions_, date) ==
    LET day_sessions ==
            SelectSeq(sessions_, LAMBDA s : /\ day_start(date) <= s.start_time
                                            /\ s.start_time <= day_end(date))
    IN  DailyLoop(day_sessions, DailyStats(date), {})

\* the first loop of calculate_period_stats: the overall totals
RECURSIVE TotalsLoop(_, _)
TotalsLoop(period_sessions, stats) ==
    IF period_sessions = <<>>
    THEN stats
    ELSE TotalsLoop(Tail(period_sessions), Counted(stats, Head(period_sessions)))

\* its second loop: one calculate_daily_stats per step of
\* timedelta(days=1)
RECURSIVE DailyStatsLoop(_, _, _)
DailyStatsLoop(period_sessions, current_date, end_date) ==
    IF current_date <= end_date
    THEN <<calculate_daily_stats(period_sessions, current_date)>>
            \o DailyStatsLoop(period_sessions, current_date + DayUnits, end_date)
    ELSE <<>>

\* the sessions of the period with that task id, breaks included
TaskSessionsAnyType(period_sessions, id) ==
    SelectSeq(period_sessions, LAMBDA s : /\ Truthy(s.task_id)
                                          /\ Val(s.task_id) = id)

\* task_sessions[id]: the work sessions of the period with that task id
TaskSessions(period_sessions, id) ==
    SelectSeq(period_sessions, LAMBDA s : /\ Truthy(s.task_id)
                                          /\ s.session_type = "work"
                                          /\ Val(s.task_id) = id)

RECURSIVE SumDurations(_)
SumDurations(list) ==
    IF list = <<>> THEN 0 ELSE Head(list).duration + SumDurations(Tail(list))

\* min(...) and max(...) over the start times
Earliest(S) == CHOOSE x \in S : \A y \in S : x <= y
Latest(S) == CHOOSE x \in S : \A y \in S : y <= x

\* TaskStats(task=task, total_sessions=.., ...)
TaskStats(task, task_session_list) ==
    [task |-> task,
     total_sessions |-> Len(task_session_list),
     total_duration |-> SumDurations(task_session_list),
     first_session |-> Earliest({task_session_list[i].start_time : i \in DOMAIN task_session_list}),
     last_session |-> Latest({task_session_list[i].start_time : i \in DOMAIN task_session_list})]

\* its third loop: `for task in tasks: if task.id in task_sessions:`
RECURSIVE TaskStatsLoop(_, _)
TaskStatsLoop(period_sessions, tasks_) ==
    IF tasks_ = <<>>
    THEN <<>>
    ELSE LET task == Head(tasks_)
             task_session_list == TaskSessions(period_sessions, task.id)
         IN  (IF task_session_list # <<>>
              THEN <<TaskStats(task, task_session_list)>>
              ELSE <<>>)
                \o TaskStatsLoop(period_sessions, Tail(tasks_))

\* StatisticsCalculator.calculate_period_stats(sessions, tasks, start, end)
calculate_period_stats(sessions_, tasks_, start_date, end_date) ==
    LET period_sessions ==
            SelectSeq(sessions_, LAMBDA s : /\ start_date <= s.start_time
                                            /\ s.start_time <= end_date)
        totals == TotalsLoop(period_sessions, PeriodStats(start_date, end_date))
    IN  [totals EXCEPT
            !.daily_stats = DailyStatsLoop(period_sessions, start_date, end_date),
            !.task_stats = TaskStatsLoop(period_sessions, tasks_)]

\* a Session row without its start time: a completed work session on task 1,
\* an interrupted one on task 2, a work session on no task, and a break
SessionShapes ==
    {[session_type |-> "work", completed |-> TRUE, task_id |-> Some(1),
      duration |-> 2],
     [session_type |-> "work", completed |-> FALSE, task_id |-> Some(2),
      duration |-> 1],
     [session_type |-> "work", completed |-> TRUE, task_id |-> None,
      duration |-> 1],
     [session_type |-> "short_break", completed |-> TRUE, task_id |-> Some(1),
      duration |-> 1]}

StatSession(shape, t) ==
    [start_time |-> t, duration |-> shape.duration,
     session_type |-> shape.session_type, completed |-> shape.completed,
     task_id |-> shape.task_id]


\* what get_all_sessions returns: rows ordered by start_time, latest first
SessionLists ==
    {list \in UNION {[1..n -> {StatSession(shape, t) : shape \in SessionShapes,
                                                        t \in StatTimes}] :
                        n \in 0..MaxStatSessions} :
        \A i \in DOMAIN list :
            i > 1 => list[i - 1].start_time >= list[i].start_time}

\* a Task as the statistics read it
StatTask(id, count) == [id |-> id, name |-> "a", pomodoro_count |-> count]

\* the task lists handed over: none, one task, and two
StatTaskLists ==
    {<<>>, <<StatTask(1, 1)>>, <<StatTask(2, 0), StatTask(1, 1)>>}

StatsInit ==
    /\ EngineConstructed(25, 5, 15, 4)
    /\ now = 0
    /\ GatewayOpened
    /\ ShellIdle
    /\ timer_config = [work_duration |-> 25, short_break_duration |-> 5,
                       long_break_duration |-> 15, pomodoros_until_long_break |-> 4]
    /\ validate_result = "not_called"
    /\ from_state_arg = "IDLE"
    /\ from_state_result = "not_called"
    /\ stat_sessions \in SessionLists
    /\ stat_tasks = <<>>
    /\ daily_result = None
    /\ period_stats = None
    /\ most_productive_day_result = None
    /\ top_tasks_result = None
    /\ FormattingUntouched

\* one call is made on each session list drawn
NoCallYet == daily_result = None /\ period_stats = None

\* StatisticsCalculator.calculate_daily_stats(sessions, date)
CalculateDailyStats ==
    \E date \in StatTimes :
        /\ NoCallYet
        /\ daily_result' = Some(calculate_daily_stats(stat_sessions, date))
        /\ UNCHANGED <<stat_sessions, stat_tasks, period_stats,
                       most_productive_day_result, top_tasks_result>>
        /\ UNCHANGED <<timer_config, validate_result, from_state_arg,
                       from_state_result, formatting>>
        /\ UNCHANGED <<timer, now, gateway, shell>>

\* StatisticsCalculator.calculate_period_stats(sessions, tasks, start, end)
CalculatePeriodStats ==
    \E list \in StatTaskLists, start_date \in StatTimes, end_date \in StatTimes :
        /\ NoCallYet
        /\ start_date <= end_date
        /\ stat_tasks' = list
        /\ period_stats' = Some(calculate_period_stats(stat_sessions, list,
                                                       start_date, end_date))
        /\ UNCHANGED <<stat_sessions, daily_result,
                       most_productive_day_result, top_tasks_result>>
        /\ UNCHANGED <<timer_config, validate_result, from_state_arg,
                       from_state_result, formatting>>
        /\ UNCHANGED <<timer, now, gateway, shell>>

StatsNext ==
    \/ CalculateDailyStats
    \/ CalculatePeriodStats

StatsSpec == StatsInit /\ [][StatsNext]_vars

\* ------------------------------------------ models: PeriodStats properties

\* a first maximum that a later equal entry replaces
RECURSIVE MaxLoopLast(_, _)
MaxLoopLast(list, best) ==
    IF list = <<>>
    THEN best
    ELSE MaxLoopLast(Tail(list),
                     IF Head(list).total_pomodoros >= best.total_pomodoros
                     THEN Head(list)
                     ELSE best)

\* max(iterable, key=...): the running maximum is replaced by a strictly
\* greater entry only, so the first of several maxima is returned
RECURSIVE MaxLoop(_, _)
MaxLoop(list, best) ==
    IF list = <<>>
    THEN best
    ELSE MaxLoop(Tail(list),
                 IF Head(list).total_pomodoros > best.total_pomodoros
                 THEN Head(list)
                 ELSE best)

\* PeriodStats.most_productive_day
most_productive_day(p) ==
    IF p.daily_stats = <<>>
    THEN None
    ELSE Some(MaxLoop(Tail(p.daily_stats), Head(p.daily_stats)))

\* the [:5] of top_tasks
TopLimit == 5

\* a key that orders by the sessions of the period
SessionCountKey(t) == t.total_sessions

\* key=lambda t: t.task.pomodoro_count
SortKey(t) == t.task.pomodoro_count

\* one entry put into a list sorted by descending key, behind the entries of
\* the same key (sorted() is stable, with reverse=True too)
RECURSIVE InsertDescending(_, _)
InsertDescending(sorted, t) ==
    IF sorted = <<>>
    THEN <<t>>
    ELSE IF SortKey(Head(sorted)) >= SortKey(t)
         THEN <<Head(sorted)>> \o InsertDescending(Tail(sorted), t)
         ELSE <<t>> \o sorted

\* sorted(task_stats, key=..., reverse=True)
RECURSIVE SortedDescending(_)
SortedDescending(list) ==
    IF list = <<>>
    THEN <<>>
    ELSE InsertDescending(SortedDescending(SubSeq(list, 1, Len(list) - 1)),
                          list[Len(list)])

\* PeriodStats.top_tasks
top_tasks(p) ==
    IF p.task_stats = <<>>
    THEN <<>>
    ELSE LET sorted == SortedDescending(p.task_stats)
         IN  SubSeq(sorted, 1, IF Len(sorted) < TopLimit THEN Len(sorted)
                                                         ELSE TopLimit)

\* the daily entries of a period that starts with day 0, as the calculator
\* makes them: one per day, in date order, each with its pomodoros
DailyEntry(k, pomodoros) ==
    [DailyStats((k - 1) * DayUnits) EXCEPT !.total_pomodoros = pomodoros,
                                        !.work_sessions = pomodoros,
                                        !.total_duration = pomodoros]

\* the task entries of a period: the k-th is of task k; a task with a higher
\* persisted count has fewer sessions in the period
TaskEntry(k, count) ==
    [task |-> StatTask(k, count),
     total_sessions |-> 1 + MaxPomodoroCount - count,
     total_duration |-> 1 + MaxPomodoroCount - count,
     first_session |-> 0,
     last_session |-> 0]

\* PeriodStats objects: the daily entries of up to MaxDailyStats days, or up
\* to MaxTaskStats task entries (each property reads one of the two lists)
PeriodStatsObjects ==
    LET DailyLists ==
            {[k \in DOMAIN counts |-> DailyEntry(k, counts[k])] :
                counts \in UNION {[1..n -> 0..MaxDailyPomodoros] :
                                     n \in 0..MaxDailyStats}}
        TaskStatsLists ==
            {[k \in DOMAIN counts |-> TaskEntry(k, counts[k])] :
                counts \in UNION {[1..n -> 0..MaxPomodoroCount] :
                                     n \in 0..MaxTaskStats}}
    IN  {[PeriodStats(0, IF list = <<>> THEN 0
                         ELSE day_end(list[Len(list)].date))
            EXCEPT !.daily_stats = list] : list \in DailyLists}
        \cup {[PeriodStats(0, 0) EXCEPT !.task_stats = list] :
                 list \in TaskStatsLists}

PeriodStatsInit ==
    /\ EngineConstructed(25, 5, 15, 4)
    /\ now = 0
    /\ GatewayOpened
    /\ ShellIdle
    /\ timer_config = [work_duration |-> 25, short_break_duration |-> 5,
                       long_break_duration |-> 15, pomodoros_until_long_break |-> 4]
    /\ validate_result = "not_called"
    /\ from_state_arg = "IDLE"
    /\ from_state_result = "not_called"
    /\ stat_sessions = <<>>
    /\ stat_tasks = <<>>
    /\ daily_result = None
    /\ period_stats \in {Some(p) : p \in PeriodStatsObjects}
    /\ most_productive_day_result = None
    /\ top_tasks_result = None
    /\ FormattingUntouched

\* stats.most_productive_day
MostProductiveDay ==
    /\ period_stats # None
    /\ most_productive_day_result' = Some(most_productive_day(Val(period_stats)))
    /\ UNCHANGED <<stat_sessions, stat_tasks, daily_result, period_stats,
                   top_tasks_result>>
    /\ UNCHANGED <<timer_config, validate_result, from_state_arg,
                   from_state_result, formatting>>
    /\ UNCHANGED <<timer, now, gateway, shell>>

\* stats.top_tasks
TopTasks ==
    /\ period_stats # None
    /\ top_tasks_result' = Some(top_tasks(Val(period_stats)))
    /\ UNCHANGED <<stat_sessions, stat_tasks, daily_result, period_stats,
                   most_productive_day_result>>
    /\ UNCHANGED <<timer_config, validate_result, from_state_arg,
                   from_state_result, formatting>>
    /\ UNCHANGED <<timer, now, gateway, shell>>

PeriodStatsNext ==
    \/ MostProductiveDay
    \/ TopTasks

PeriodStatsSpec == PeriodStatsInit /\ [][PeriodStatsNext]_vars

\* ------------------------------------------------- the Shell: PomodoroApp

\* the session-complete notification among the listener calls ns
CompletionIn(ns) == SelectSeq(ns, LAMBDA n : n.kind = "session_complete")[1]

\* mutant of HandlerSteps: the counter is incremented before the session is
\* recorded
HandlerStepsIncrementFirst(note) ==
    IF note.session_type = "work" /\ note.task_id # None
    THEN <<"increment_task_pomodoros", "create_session">>
    ELSE <<"create_session">>

\* mutant of HandlerSteps: the counter is never incremented
HandlerStepsNoIncrement(note) == <<"create_session">>

\* _on_session_complete(session_type, duration, task_id): the gateway calls
\* it makes, in order, each committed by itself
HandlerSteps(note) ==
    IF note.session_type = "work" /\ note.task_id # None
    THEN <<"create_session", "increment_task_pomodoros">>
    ELSE <<"create_session">>

\* the handler after the call at the head of shell_pc has returned
HandlerAdvances ==
    /\ shell_pc' = Tail(shell_pc)
    /\ pending' = IF Tail(shell_pc) = <<>> THEN None ELSE pending

\* PomodoroApp(): the app starts on a new or an existing database file; the
\* durations are scaled down to one minute, the long break comes every
\* second pomodoro
ShellInit ==
    /\ EngineConstructed(1, 1, 1, 2)
    /\ now = 0
    /\ GatewayOpened
    /\ ModelsUntouched
    /\ ShellIdle

\* action_toggle_timer (space)
KeySpace ==
    /\ shell_pc = <<>>
    /\ IF state = "IDLE" THEN StartWorkSession ELSE TogglePause

\* action_reset_timer (r)
KeyReset ==
    /\ shell_pc = <<>>
    /\ Reset

\* action_next_session (n)
KeyNext ==
    /\ shell_pc = <<>>
    /\ StartNextSession

\* action_new_task (t), the dialog confirmed: the task is created, becomes
\* the app's current task and the engine's
KeyNewTask ==
    \E name \in Names :
        /\ shell_pc = <<>>
        /\ task_seq < MaxTasks
        /\ LET row == [id |-> task_seq + 1, name |-> name, description |-> "",
                       created_at |-> now, completed_at |-> None,
                       color |-> "blue", pomodoro_count |-> 0]
           IN  /\ tasks' = tasks \cup {row}
               /\ held' = Some(TaskOfRow(row))
               /\ current_task_id' = Some(row.id)
        /\ task_seq' = task_seq + 1
        /\ gw_result' = ""
        /\ connected' = TRUE
        /\ op' = "set_current_task"
        /\ returned' = None
        /\ notified' = <<>>
        /\ UNCHANGED <<sessions, settings, session_seq, got_setting>>
        /\ UNCHANGED <<config, state, completed_pomodoros, session_duration,
                       session_start_time, paused_time_remaining, now,
                       paused_from>>
        /\ UNCHANGED <<models, shell>>

\* _tick_callback, every second: tick() while the engine is active; a
\* session-complete notification enters _on_session_complete
TickCallback ==
    /\ shell_pc = <<>>
    /\ is_active(state)
    /\ op' = "tick"
    /\ TickEffect
    /\ IF returned' = Some(TRUE)
       THEN /\ pending' = Some(CompletionIn(notified'))
            /\ shell_pc' = HandlerSteps(CompletionIn(notified'))
       ELSE UNCHANGED shell
    /\ UNCHANGED <<config, now, paused_from>>
    /\ UNCHANGED <<gateway, models>>

\* _on_session_complete: self.db.create_session(task_id, duration,
\* session_type.value, completed=True); an exception ends the handler
ShellCreateSession ==
    /\ shell_pc # <<>>
    /\ Head(shell_pc) = "create_session"
    /\ LET note == Val(pending)
       IN  IF note.task_id # None /\ get_task(Val(note.task_id)) = None
           THEN /\ gw_result' = "IntegrityError"
                /\ shell_pc' = <<>>
                /\ pending' = None
                /\ UNCHANGED <<sessions, session_seq>>
           ELSE /\ sessions' = sessions \cup
                       {[id |-> session_seq + 1, task_id |-> note.task_id,
                         start_time |-> now, end_time |-> Some(now),
                         duration |-> note.duration, completed |-> TRUE,
                         session_type |-> note.session_type]}
                /\ session_seq' = session_seq + 1
                /\ gw_result' = ""
                /\ HandlerAdvances
    /\ connected' = TRUE
    /\ UNCHANGED <<tasks, settings, task_seq, held, got_setting>>
    /\ UNCHANGED <<timer, now, models>>

\* _on_session_complete: self.db.increment_task_pomodoros(task_id), and
\* increment_pomodoros() on the app's current task if it is that task
ShellIncrementTask ==
    /\ shell_pc # <<>>
    /\ Head(shell_pc) = "increment_task_pomodoros"
    /\ LET id == Val(Val(pending).task_id)
       IN  /\ tasks' = {IF r.id = id
                        THEN [r EXCEPT !.pomodoro_count = @ + 1]
                        ELSE r : r \in tasks}
           /\ held' = IF held # None /\ Val(held).id = Some(id)
                      THEN Some([Val(held) EXCEPT !.pomodoro_count = @ + 1])
                      ELSE held
    /\ HandlerAdvances
    /\ gw_result' = ""
    /\ connected' = TRUE
    /\ UNCHANGED <<sessions, settings, task_seq, session_seq, got_setting>>
    /\ UNCHANGED <<timer, now, models>>

\* the process dies and the app is started again: what was committed to the
\* database file stays, everything in memory starts afresh
Crash ==
    /\ state' = "IDLE"
    /\ completed_pomodoros' = 0
    /\ session_duration' = 0
    /\ session_start_time' = None
    /\ paused_time_remaining' = None
    /\ current_task_id' = None
    /\ op' = "init"
    /\ returned' = None
    /\ notified' = <<>>
    /\ paused_from' = None
    /\ held' = None
    /\ gw_result' = ""
    /\ connected' = FALSE
    /\ got_setting' = None
    /\ shell_pc' = <<>>
    /\ pending' = None
    /\ UNCHANGED <<config, now, models>>
    /\ UNCHANGED <<tasks, sessions, settings, task_seq, session_seq>>

\* time passes between two events of the app: half a session or a whole one
ShellClock ==
    \E d \in {SecondsPerMinute \div 2, SecondsPerMinute} :
        /\ shell_pc = <<>>
        /\ now + d * TicksPerSecond <= MaxNow
        /\ now' = now + d * TicksPerSecond
        /\ UNCHANGED <<timer, gateway, models, shell>>

ShellNext ==
    \/ KeySpace
    \/ KeyReset
    \/ KeyNext
    \/ KeyNewTask
    \/ TickCallback
    \/ ShellCreateSession
    \/ ShellIncrementTask
    \/ Crash
    \/ ShellClock

ShellSpec == ShellInit /\ [][ShellNext]_vars

\* ---------------------------------------------------------------- claims

\* the step is a call of engine method `name` (the clock does not move
\* during a call)
Called(name) == op' = name /\ now' = now

\* the listener calls of kind k among ns
NotesOfKind(ns, k) == {i \in DOMAIN ns : ns[i].kind = k}

\* wall-clock time elapsed since the session start reference, in clock units
ElapsedUnits == now - Val(session_start_time)

\* C1: in each active state, a tick() made when the elapsed wall-clock time
\* is at least the session's duration emits exactly one session-complete
\* notification, returns the completion signal and leaves the engine Idle;
\* a tick() while Idle returns no-signal, emits nothing and changes nothing.
C1_TickFinalizesOnce ==
    /\ [][(Called("tick") /\ is_active(state) /\ session_start_time # None
             /\ ElapsedUnits >= session_duration * TicksPerSecond)
          => /\ returned' = Some(TRUE)
             /\ state' = "IDLE"
             /\ Cardinality(NotesOfKind(notified', "session_complete")) = 1]_vars
    /\ [][(Called("tick") /\ state = "IDLE")
          => /\ returned' = Some(FALSE)
             /\ notified' = <<>>
             /\ UNCHANGED engine]_vars

\* C1 witness: a tick has just finalized a short break that ran out
C1_Witness ==
    /\ op = "tick"
    /\ returned = Some(TRUE)
    /\ state = "IDLE"
    /\ \E i \in DOMAIN notified :
          /\ notified[i].kind = "session_complete"
          /\ notified[i].session_type = "short_break"

\* C2: after pause() from an active state, time_remaining is the value
\* snapshotted at the pause however much wall-clock time passes while
\* Paused; right after resume() the engine is active and time_remaining
\* equals that snapshot.
C2_NoDriftWhilePaused ==
    /\ [][(Called("pause") /\ is_active(state))
          => /\ state' = "PAUSED"
             /\ time_remaining' = time_remaining]_vars
    /\ [][(state = "PAUSED" /\ state' = "PAUSED")
          => time_remaining' = time_remaining]_vars
    /\ [][((Called("resume") \/ Called("toggle_pause")) /\ state = "PAUSED")
          => /\ is_active(state')
             /\ time_remaining' = time_remaining]_vars

\* C2 witness: the engine is Paused, wall-clock time has passed since the
\* pause (the live computation would give less than the snapshot), and the
\* snapshot is neither zero nor a full duration
C2_Witness ==
    /\ state = "PAUSED"
    /\ session_start_time # None
    /\ time_remaining > Max(0, session_duration - (ElapsedUnits \div TicksPerSecond))
    /\ time_remaining < session_duration

\* C3: pause() then resume() (or toggle_pause() twice) from an active state
\* S returns the engine to S, whatever the counter and the elapsed time.
C3_ResumeRestoresState ==
    [][((Called("resume") \/ Called("toggle_pause")) /\ state = "PAUSED"
          /\ paused_from # None)
       => state' = Val(paused_from)]_vars

\* C4: with pomodoros_until_long_break = 2, the start_next_session() made
\* after a work session has been completed starts a break: a short break
\* after the 1st completed pomodoro, a long break after the 2nd, and so on.
C4_CycleAfterCompletion ==
    [][(/\ pomodoros_until_long_break = 2
        /\ op = "tick" /\ returned = Some(TRUE)
        /\ \E i \in DOMAIN notified :
              /\ notified[i].kind = "session_complete"
              /\ notified[i].session_type = "work"
        /\ Called("start_next_session"))
       => state' = (IF completed_pomodoros % 2 = 0
                    THEN "LONG_BREAK" ELSE "SHORT_BREAK")]_vars

\* C5: start_next_session() enters Working from Idle; from Working it
\* enters LongBreak exactly when (completed_pomodoros + 1) mod
\* pomodoros_until_long_break = 0 and ShortBreak otherwise; from either
\* break it enters Working; the counter is unchanged by the call.
C5_StartNextSessionTransitions ==
    [][Called("start_next_session")
       => /\ completed_pomodoros' = completed_pomodoros
          /\ state = "IDLE" => state' = "WORKING"
          /\ state = "WORKING" =>
                /\ state' \in {"LONG_BREAK", "SHORT_BREAK"}
                /\ state' = "LONG_BREAK" <=>
                     \E k \in 1..(completed_pomodoros + 1) :
                        k * pomodoros_until_long_break = completed_pomodoros + 1
          /\ state \in {"SHORT_BREAK", "LONG_BREAK"} => state' = "WORKING"]_vars

\* C5 witness: start_next_session() has just gone from Working to a long
\* break with a threshold of 2, after one completed pomodoro
C5_Witness ==
    /\ op = "start_next_session"
    /\ state = "LONG_BREAK"
    /\ pomodoros_until_long_break = 2
    /\ completed_pomodoros = 1

\* C6: resume() from Paused resumes into Working if no pomodoro has
\* completed yet or the snapshotted remaining time is <= the work duration;
\* otherwise into ShortBreak if the snapshot is <= the short-break duration,
\* else into LongBreak; and the snapshot becomes the resumed session's
\* duration.
C6_ResumeStateFromSnapshot ==
    [][(Called("resume") /\ state = "PAUSED" /\ paused_time_remaining # None)
       => /\ state' =
               (IF completed_pomodoros = 0
                   \/ Val(paused_time_remaining) <= work_duration
                THEN "WORKING"
                ELSE IF Val(paused_time_remaining) <= short_break_duration
                THEN "SHORT_BREAK"
                ELSE "LONG_BREAK")
          /\ session_duration' = Val(paused_time_remaining)]_vars

\* C7 as stated: a tick() in an active state either (remaining time zero)
\* finalizes and returns the completion signal without a tick notification,
\* or emits one tick notification carrying the remaining time and returns
\* no-signal; a tick() in Idle or Paused emits nothing and returns no-signal.
C7_TickEitherOr ==
    /\ [][(Called("tick") /\ is_active(state))
          => IF time_remaining = 0
             THEN /\ returned' = Some(TRUE)
                  /\ state' = "IDLE"
                  /\ NotesOfKind(notified', "tick") = {}
             ELSE /\ returned' = Some(FALSE)
                  /\ notified' = <<TickNote(time_remaining)>>
                  /\ UNCHANGED engine]_vars
    /\ [][(Called("tick") /\ ~is_active(state))
          => /\ returned' = Some(FALSE)
             /\ notified' = <<>>]_vars

\* C7 amended: a tick() in an active state first emits one tick
\* notification carrying the remaining time, always; if the remaining time
\* is zero it then finalizes the session and returns the completion signal,
\* otherwise it does nothing more and returns no-signal; a tick() in Idle
\* or Paused emits nothing and returns no-signal.
C7_TickNotifiesThenFinalizes ==
    /\ [][(Called("tick") /\ is_active(state))
          => /\ Len(notified') >= 1
             /\ notified'[1] = TickNote(time_remaining)
             /\ Cardinality(NotesOfKind(notified', "tick")) = 1
             /\ IF time_remaining = 0
                THEN /\ returned' = Some(TRUE)
                     /\ state' = "IDLE"
                     /\ Cardinality(NotesOfKind(notified', "session_complete")) = 1
                ELSE /\ returned' = Some(FALSE)
                     /\ Len(notified') = 1
                     /\ UNCHANGED engine]_vars
    /\ [][(Called("tick") /\ ~is_active(state))
          => /\ returned' = Some(FALSE)
             /\ notified' = <<>>
             /\ UNCHANGED engine]_vars

\* C7 witness: a finalizing tick has delivered a tick notification carrying
\* 0 ahead of the session-complete notification
C7_Witness ==
    /\ op = "tick"
    /\ returned = Some(TRUE)
    /\ Len(notified) >= 2
    /\ notified[1] = TickNote(0)
    /\ notified[2].kind = "session_complete"

\* C8: the session-complete notification carries the session type of the
\* finishing state, the configured duration of that state, and the engine's
\* current task id if the finishing state is Working, null if it is a break.
C8_CompletionNotePayload ==
    [][(Called("tick") /\ returned' = Some(TRUE))
       => \E i \in DOMAIN notified' :
             /\ NotesOfKind(notified', "session_complete") = {i}
             /\ notified'[i].session_type =
                   (CASE state = "WORKING" -> "work"
                      [] state = "SHORT_BREAK" -> "short_break"
                      [] state = "LONG_BREAK" -> "long_break"
                      [] OTHER -> "none")
             /\ notified'[i].duration =
                   (CASE state = "WORKING" -> work_duration
                      [] state = "SHORT_BREAK" -> short_break_duration
                      [] state = "LONG_BREAK" -> long_break_duration
                      [] OTHER -> 0 - 1)
             /\ notified'[i].task_id =
                   (IF state = "WORKING" THEN current_task_id ELSE None)]_vars

\* C8 witness: a work session that was paused and resumed (so restarted
\* with a shorter duration) has finalized under task 2
C8_Witness ==
    /\ op = "tick"
    /\ returned = Some(TRUE)
    /\ paused_from # None
    /\ \E i \in DOMAIN notified :
          /\ notified[i].kind = "session_complete"
          /\ notified[i].session_type = "work"
          /\ notified[i].task_id = Some(2)

\* the step leaves the running session as it is: the engine is active before
\* and after, and the step is the clock moving or a call that starts nothing
SessionContinues ==
    /\ is_active(state) /\ is_active(state')
    /\ session_start_time # None
    /\ \/ now' # now
       \/ Called("tick") \/ Called("set_current_task")
       \/ Called("pause") \/ Called("resume")

\* the step is a call that starts a session of duration d in state st
Starts(name, st, d) ==
    Called(name) => (state' = st /\ time_remaining' = d
                       /\ session_duration' = d /\ session_start_time' = Some(now))

\* C9: in an active state time_remaining is max(0, duration set at session
\* start - whole seconds of wall-clock time elapsed since session start),
\* however many tick() calls were made or missed in between; it is 0 in
\* Idle and never negative.
C9_TimeRemainingFromWallClock ==
    /\ [](time_remaining >= 0 /\ (state = "IDLE" => time_remaining = 0))
    /\ [][/\ Starts("start_work_session", "WORKING", work_duration)
          /\ Starts("start_short_break", "SHORT_BREAK", short_break_duration)
          /\ Starts("start_long_break", "LONG_BREAK", long_break_duration)]_vars
    /\ [][SessionContinues
          => /\ session_duration' = session_duration
             /\ session_start_time' = session_start_time
             /\ time_remaining' =
                   Max(0, session_duration
                            - ((now' - Val(session_start_time)) \div TicksPerSecond))]_vars

\* C9 witness: a tick has been made part-way through a second (the elapsed
\* time is not a whole number of seconds) of a session that is still running
C9_Witness ==
    /\ op = "tick"
    /\ returned = Some(FALSE)
    /\ is_active(state)
    /\ session_start_time # None
    /\ ElapsedUnits % TicksPerSecond # 0
    /\ 0 < time_remaining /\ time_remaining < session_duration

\* C10: total_duration is the configured work / short-break / long-break
\* duration in Working / ShortBreak / LongBreak and 0 in Idle and Paused,
\* after any sequence of operations, a resume with a shorter duration
\* included; the configured durations are those given at construction.
C10_TotalDurationIsConfigured ==
    /\ work_duration \in {m * SecondsPerMinute : m \in WorkMinutes}
    /\ short_break_duration \in {m * SecondsPerMinute : m \in ShortBreakMinutes}
    /\ long_break_duration \in {m * SecondsPerMinute : m \in LongBreakMinutes}
    /\ state = "WORKING" => total_duration = work_duration
    /\ state = "SHORT_BREAK" => total_duration = short_break_duration
    /\ state = "LONG_BREAK" => total_duration = long_break_duration
    /\ state \in {"IDLE", "PAUSED"} => total_duration = 0

\* C10 witness: a long break has been resumed with less than its configured
\* duration left
C10_Witness ==
    /\ op \in {"resume", "toggle_pause"}
    /\ state = "LONG_BREAK"
    /\ 0 < session_duration /\ session_duration < long_break_duration


\* C11: set_current_task(t2), called while a work session is in progress,
\* does not change the task that session is attributed to: the
\* session-complete notification its finalization delivers carries the same
\* task after the call as before it.
C11_SetCurrentTaskNotRetroactive ==
    [][(Called("set_current_task") /\ state = "WORKING")
        => CompletionNote'.task_id = CompletionNote.task_id]_vars


\* C12: completed_pomodoros changes only in two ways: a tick() that
\* finalizes a WORKING session increases it by exactly 1 and reset() sets it
\* to 0; every other step (stop, pause, resume, toggle_pause, the start_*
\* operations, set_current_task, ticks that do not finalize and the
\* finalization of a break) leaves it unchanged.
C12_CounterChangesOnlyTwoWays ==
    [][/\ (Called("tick") /\ state = "WORKING" /\ returned' = Some(TRUE))
            => completed_pomodoros' = completed_pomodoros + 1
       /\ Called("reset") => completed_pomodoros' = 0
       /\ ~(Called("tick") /\ state = "WORKING" /\ returned' = Some(TRUE))
          /\ ~Called("reset")
            => completed_pomodoros' = completed_pomodoros]_vars

\* a break has just been finalized after a pomodoro was counted, and the
\* counter still shows it
C12_Witness ==
    /\ op = "tick"
    /\ returned = Some(TRUE)
    /\ completed_pomodoros = 1
    /\ \E i \in DOMAIN notified :
          /\ notified[i].kind = "session_complete"
          /\ notified[i].session_type # "work"


\* C13: stop() and reset() take effect at once from every state: after the
\* call the engine is IDLE with time_remaining 0 and no snapshot.  They are
\* idempotent: a second consecutive call leaves state, remaining time,
\* snapshot and completed-pomodoro counter exactly as after the first.
C13_StopResetIdempotent ==
    [][/\ (Called("stop") \/ Called("reset"))
            => /\ state' = "IDLE"
               /\ time_remaining' = 0
               /\ paused_time_remaining' = None
       /\ ((op = "stop" /\ Called("stop")) \/ (op = "reset" /\ Called("reset")))
            => UNCHANGED <<state, time_remaining, paused_time_remaining,
                           completed_pomodoros, session_start_time>>]_vars

\* stop() has just interrupted a paused session after a counted pomodoro
C13_Witness ==
    /\ op = "stop"
    /\ paused_from # None
    /\ completed_pomodoros = 1
    /\ state = "IDLE"
    /\ paused_time_remaining = None
    /\ notified = <<StateChange("IDLE")>>


\* C14: pause() called in IDLE or PAUSED, and resume() called in any state
\* other than PAUSED, are no-ops: state, remaining-time snapshot, session
\* start reference and counter are unchanged and no state-change
\* notification is emitted (a second pause() while PAUSED does not
\* overwrite the snapshot).
C14_PauseResumeNoOps ==
    [][((Called("pause") /\ ~is_active(state))
            \/ (Called("resume") /\ state # "PAUSED"))
        => /\ UNCHANGED <<state, paused_time_remaining, session_start_time,
                          completed_pomodoros>>
           /\ notified' = <<>>]_vars

\* pause() has just been called on a session already paused, later on the
\* clock than the pause that took the snapshot
C14_Witness ==
    /\ op = "pause"
    /\ state = "PAUSED"
    /\ notified = <<>>
    /\ paused_time_remaining # None
    /\ Val(paused_time_remaining) > 0
    /\ WholeSeconds(now - Val(session_start_time)) > session_duration - Val(paused_time_remaining)


\* the step is a call that enters a state: a start_* operation, an
\* effective pause or resume (directly or through toggle_pause), stop() or
\* reset()
EntersState ==
    \/ Called("start_work_session")
    \/ Called("start_short_break")
    \/ Called("start_long_break")
    \/ (Called("start_next_session") /\ state # "PAUSED")
    \/ (Called("pause") /\ is_active(state))
    \/ (Called("resume") /\ state = "PAUSED")
    \/ (Called("toggle_pause") /\ state # "IDLE")
    \/ Called("stop")
    \/ Called("reset")

\* C15: notifications are delivered inside the triggering call and in
\* order.  Each start_*, effective pause, effective resume, stop and reset
\* emits exactly one state-change notification, carrying the state the
\* engine is in after the call; no call emits more than one, and whenever the
\* state changes the call emits one carrying the new state, so the notified
\* states are the states entered.  On finalization the session-complete
\* notification is delivered before the state-change notification for IDLE.
C15_NotificationsInOrder ==
    [][/\ EntersState => notified' = <<StateChange(state')>>
       /\ Cardinality(NotesOfKind(notified', "state_change")) <= 1
       /\ \A i \in NotesOfKind(notified', "state_change") :
             notified'[i] = StateChange(state')
       /\ state' # state => NotesOfKind(notified', "state_change") # {}
       /\ (Called("tick") /\ returned' = Some(TRUE))
            => \E i, j \in DOMAIN notified' :
                  /\ i < j
                  /\ NotesOfKind(notified', "session_complete") = {i}
                  /\ NotesOfKind(notified', "state_change") = {j}
                  /\ notified'[j] = StateChange("IDLE")]_vars

\* a long break has just been finalized: its completion was notified first,
\* the change to IDLE after it
C15_Witness ==
    /\ op = "tick"
    /\ returned = Some(TRUE)
    /\ Len(notified) = 3
    /\ notified[2].kind = "session_complete"
    /\ notified[2].session_type = "long_break"
    /\ notified[3] = StateChange("IDLE")


\* the fields of c that are below 1, by their position in ConfigFields
InvalidFields(c) == {i \in DOMAIN ConfigFields : c[ConfigFields[i]] < 1}

\* the error validate() has for each field, by position
ConfigErrors ==
    <<"ValueError: Work duration must be at least 1 minute",
      "ValueError: Short break duration must be at least 1 minute",
      "ValueError: Long break duration must be at least 1 minute",
      "ValueError: Pomodoros until long break must be at least 1">>

\* C16: TimerConfig.validate() signals an error if and only if at least one
\* of work duration, short-break duration, long-break duration or
\* pomodoros_until_long_break is below 1; when several are, the error is
\* that of the first in the order work, short break, long break, threshold;
\* validate() never modifies the configuration.
C16_ValidateRejectsFirstInvalid ==
    [][validate_result' # "not_called"
        => /\ timer_config' = timer_config
           /\ validate_result' = "ok" <=> InvalidFields(timer_config) = {}
           /\ \A i \in InvalidFields(timer_config) :
                 (\A j \in InvalidFields(timer_config) : i <= j)
                    => validate_result' = ConfigErrors[i]]_vars

\* validate() has rejected a configuration with three invalid fields and
\* reported the short-break duration, the first of them
C16_Witness ==
    /\ validate_result = ConfigErrors[2]
    /\ InvalidFields(timer_config) = {2, 3, 4}

\* the session types (SessionType)
SessionTypes == {"work", "short_break", "long_break"}

\* C17: deriving a session type from IDLE or PAUSED signals an invalid-state
\* error, and the three active states map to three distinct session types.
C17_FromStateTotalInjective ==
    /\ from_state_result # "not_called"
        => /\ ~is_active(from_state_arg) => from_state_result = "ValueError"
           /\ is_active(from_state_arg) => from_state_result \in SessionTypes
    /\ \A a, b \in {s \in TimerState : is_active(s)} :
          from_state(a) = from_state(b) => a = b

\* from_state(PAUSED) has been called and has raised
C17_Witness ==
    /\ from_state_arg = "PAUSED"
    /\ from_state_result = "ValueError"


\* C18: after delete_task(id), every session that referenced that task is
\* removed from the store: when the row of task id goes (only delete_task
\* removes one), get_session on the id of each session that referenced it
\* returns absence, and get_sessions_for_task(id) is empty.
C18_DeleteTaskRemovesSessions ==
    [][\A id \in 1..MaxTasks :
          (get_task(id) # None /\ get_task(id)' = None)
            => /\ \A r \in get_sessions_for_task(id) : get_session(r.id)' = None
               /\ get_sessions_for_task(id)' = {}]_vars

\* C19: a persisted session record is immutable: no gateway operation
\* changes any field (task id, start, end, duration, completed, type) of a
\* session that create_session has stored; a stored session is either still
\* there with every field as it was, or removed.
C19_SessionRecordImmutable ==
    [][\A r \in sessions :
          get_session(r.id)' # None => get_session(r.id)' = Some(r)]_vars

\* C20: a task's persisted pomodoro count is non-negative and never
\* decreases over gateway operations on that task (create_task,
\* increment_task_pomodoros, update_task with a Task object that was
\* fetched or created before).
C20_PomodoroCountMonotonic ==
    [][\A r \in tasks :
          /\ r.pomodoro_count >= 0
          /\ \A q \in tasks' :
                q.id = r.id => q.pomodoro_count >= r.pomodoro_count]_vars


\* C21: for every Task, after any sequence of complete()/uncomplete() calls,
\* is_completed holds exactly when the completion timestamp is set;
\* complete() sets the timestamp of a task that is not completed and leaves
\* the timestamp of a completed task as it is; uncomplete() always clears it.
C21_CompletionTimestamp ==
    [][/\ is_completed(Val(held')) <=> Val(held').completed_at # None
       /\ CompleteHeld
            => /\ is_completed(Val(held'))
               /\ is_completed(Val(held))
                    => Val(held').completed_at = Val(held).completed_at
               /\ ~is_completed(Val(held))
                    => Val(held').completed_at = Some(now)
       /\ UncompleteHeld
            => /\ ~is_completed(Val(held'))
               /\ Val(held').completed_at = None]_vars

\* a task completed at an earlier reading of the clock than the present one
\* is still completed, with the timestamp of its first completion
C21_Witness ==
    /\ held # None
    /\ is_completed(Val(held))
    /\ Val(held).completed_at = Some(1)
    /\ now = MaxStamp


\* C22: settings are a map with upsert semantics.  No key is set at first;
\* set_setting(k, v) makes get_setting(k) return v (the empty string
\* included) and changes the value of no other key; nothing else, closing
\* and reopening the gateway included, changes what get_setting returns; and
\* a get_setting(k) call returns that value, absence for a key never set.
C22_SettingsUpsert ==
    /\ \A k \in StoredKeys : get_setting(k) = None
    /\ [][/\ \A k \in StoredKeys, v \in StoredValues :
                SetSettingTo(k, v)
                  => /\ get_setting(k)' = Some(v)
                     /\ \A other \in StoredKeys \ {k} :
                           get_setting(other)' = get_setting(other)
          /\ ~(\E k \in StoredKeys, v \in StoredValues : SetSettingTo(k, v))
                => \A k \in StoredKeys : get_setting(k)' = get_setting(k)
          /\ \A k \in StoredKeys :
                GetSettingOf(k)
                  => got_setting' = Some([key |-> k, value |-> get_setting(k)'])]_vars

\* the theme has been set to the empty string while another key was
\* stored, and get_setting has returned it
C22_Witness ==
    /\ got_setting = Some([key |-> "theme", value |-> Some("")])
    /\ get_setting("current_task_id") = Some("1")
    /\ connected


\* the fields update_task writes, as the Task object or the row r has them
UpdatedFields(r) ==
    <<r.name, r.description, r.completed_at, r.color, r.pomodoro_count>>

\* C23: update_task on a Task whose id is unset signals an error at once
\* and leaves the store unchanged; update_task on a Task with an id
\* overwrites name, description, completion timestamp, color and pomodoro
\* count of exactly the stored task with that id (its id and creation time
\* stay) and changes no other row.
C23_UpdateTaskOverwritesOne ==
    [][UpdateTask
        => IF Val(held).id = None
           THEN /\ gw_result' = "ValueError"
                /\ UNCHANGED <<tasks, sessions, settings>>
           ELSE /\ gw_result' = ""
                /\ UNCHANGED <<sessions, settings>>
                /\ {r.id : r \in tasks'} = {r.id : r \in tasks}
                /\ \A r \in tasks, q \in tasks' :
                      r.id = q.id
                        => IF r.id = Val(Val(held).id)
                           THEN /\ UpdatedFields(q) = UpdatedFields(Val(held))
                                /\ q.created_at = r.created_at
                           ELSE q = r]_vars

\* two tasks are stored; the first carries a description, a color, a
\* completion timestamp and a count that only update_task can have written,
\* the second is as create_task made it
C23_Witness ==
    /\ \E r \in tasks :
          /\ r.id = 1
          /\ r.description = "d"
          /\ r.color = "red"
          /\ r.completed_at # None
          /\ r.pomodoro_count = 1
    /\ \E r \in tasks :
          /\ r.id = 2
          /\ UpdatedFields(r) = <<r.name, "", None, "blue", 0>>
    /\ gw_result = ""


\* the work sessions recorded for task id
WorkSessionsOf(id) ==
    {r \in sessions : r.task_id = Some(id) /\ r.session_type = "work"}

\* C24: the Shell handles a completed work session with a task in two
\* separately committed steps, the session record first and the increment
\* of the task's persisted pomodoro counter second.  No state, whatever the
\* interleaving of steps and crashes, has a counter above the number of work
\* sessions recorded for its task; recording the session changes no task
\* and incrementing the counter changes no session; and a crash between
\* the two leaves the session recorded without the counter increment.
C24_SessionBeforeCounter ==
    /\ [](\A r \in tasks : r.pomodoro_count <= Cardinality(WorkSessionsOf(r.id)))
    /\ [][/\ ShellCreateSession => UNCHANGED tasks
          /\ ShellIncrementTask => UNCHANGED sessions
          /\ (Crash /\ shell_pc = <<"increment_task_pomodoros">>)
                => /\ UNCHANGED <<tasks, sessions>>
                   /\ \E r \in tasks' :
                         /\ Some(r.id) = Val(pending).task_id
                         /\ r.pomodoro_count
                               < Cardinality(WorkSessionsOf(r.id)')]_vars

\* the app has been restarted after a crash, and a task has one work session
\* more on record than its counter says
C24_Witness ==
    /\ op = "init"
    /\ shell_pc = <<>>
    /\ \E r \in tasks : r.pomodoro_count < Cardinality(WorkSessionsOf(r.id))

\* the rows of tasks other than id, and the count of task id
OtherTasks(id) == {r \in tasks : r.id # id}
CountOf(id) == {r.pomodoro_count : r \in {q \in tasks : q.id = id}}

\* C25: for every session-complete notification the Shell persists exactly
\* one session record (completed, type, duration and task id as notified),
\* and it increments the persisted pomodoro counter of the notified task by
\* exactly one if and only if the session type is work and the task id is
\* not null; a break completion changes no task counter, and nothing but
\* the handling of a notification adds a session or changes a counter.
C25_OneRecordPerCompletion ==
    [][/\ (TickCallback /\ returned' = Some(TRUE))
            => /\ pending' = Some(CompletionIn(notified'))
               /\ Head(shell_pc') = "create_session"
       /\ ShellCreateSession
            => /\ \E r \in sessions' \ sessions :
                     /\ sessions' = sessions \cup {r}
                     /\ r.completed
                     /\ r.session_type = Val(pending).session_type
                     /\ r.duration = Val(pending).duration
                     /\ r.task_id = Val(pending).task_id
               /\ UNCHANGED tasks
               /\ IF Val(pending).session_type = "work"
                     /\ Val(pending).task_id # None
                  THEN shell_pc' = <<"increment_task_pomodoros">>
                  ELSE shell_pc' = <<>>
       /\ ShellIncrementTask
            => /\ Val(pending).session_type = "work"
               /\ Val(pending).task_id # None
               /\ \E id \in 1..MaxTasks :
                     /\ Some(id) = Val(pending).task_id
                     /\ CountOf(id)' = {n + 1 : n \in CountOf(id)}
                     /\ OtherTasks(id)' = OtherTasks(id)
               /\ UNCHANGED sessions
               /\ shell_pc' = <<>>
       /\ ~(ShellCreateSession \/ ShellIncrementTask)
            => /\ UNCHANGED sessions
               /\ \A r \in tasks : r \in tasks']_vars

\* the Shell has handled the completion of a break, recorded without a
\* task, and then that of a work session of task 1, whose counter is 1
C25_Witness ==
    /\ op = "tick"
    /\ returned = Some(TRUE)
    /\ shell_pc = <<>>
    /\ \E r \in sessions :
          /\ r.session_type = "short_break"
          /\ r.task_id = None
    /\ Cardinality(WorkSessionsOf(1)) = 1
    /\ CountOf(1) = {1}

\* the sessions (by position) of a list that start on the calendar day of
\* `date`, no later than the start of that day's last second
StartingOn(list, date) ==
    {i \in DOMAIN list :
        /\ list[i].start_time \div DayUnits = date \div DayUnits
        /\ list[i].start_time % DayUnits <= (SecondsPerDay - 1) * TicksPerSecond}

\* the sum of the durations of the sessions at the positions S
RECURSIVE DurationAt(_, _)
DurationAt(list, S) ==
    IF S = {} THEN 0
    ELSE LET i == CHOOSE j \in S : TRUE
         IN  list[i].duration + DurationAt(list, S \ {i})

WorkAt(list, S) == {i \in S : list[i].session_type = "work"}

\* C26: daily(sessions, date) considers exactly the sessions that start in
\* [date 00:00:00, date 23:59:59]: total_duration is the sum of their
\* durations, work_sessions and total_pomodoros both count the work sessions
\* (completed or not), break_sessions the others, completed_sessions those
\* with completed = true, tasks_worked_on the distinct non-null task ids of
\* the work sessions; on an empty list every field is 0
C26_DailyStatsCounts ==
    daily_result # None
        => LET d == Val(daily_result)
               S == StartingOn(stat_sessions, d.date)
               W == WorkAt(stat_sessions, S)
           IN  /\ d.total_duration = DurationAt(stat_sessions, S)
               /\ d.work_sessions = Cardinality(W)
               /\ d.total_pomodoros = Cardinality(W)
               /\ d.break_sessions = Cardinality(S \ W)
               /\ d.completed_sessions
                    = Cardinality({i \in S : stat_sessions[i].completed})
               /\ d.tasks_worked_on
                    = Cardinality({stat_sessions[i].task_id : i \in W} \ {None})
               /\ stat_sessions = <<>>
                    => d = [date |-> d.date, total_pomodoros |-> 0,
                            total_duration |-> 0, work_sessions |-> 0,
                            break_sessions |-> 0, completed_sessions |-> 0,
                            tasks_worked_on |-> 0]

\* the statistics of a day on which an interrupted work session of a task
\* started, while the other session of the list started in the last
\* half-second of that day and so is not counted
C26_Witness ==
    /\ daily_result # None
    /\ Len(stat_sessions) = 2
    /\ \E i \in DOMAIN stat_sessions :
          /\ stat_sessions[i].start_time \div DayUnits
                = Val(daily_result).date \div DayUnits
          /\ stat_sessions[i].start_time % DayUnits = DayUnits - 1
    /\ Val(daily_result).total_pomodoros = 1
    /\ Val(daily_result).completed_sessions = 0
    /\ Val(daily_result).tasks_worked_on = 1

\* the calendar day (its number) a timestamp lies in
DayOf(t) == t \div DayUnits

\* C27: period(sessions, tasks, start, end) returns exactly one DailyStats
\* entry per calendar day touched by the inclusive range [start, end], in
\* date order, days without sessions included, for any start <= end
C27_OneEntryPerCalendarDay ==
    period_stats # None
        => LET p == Val(period_stats)
               first == DayOf(p.start_date)
               last == DayOf(p.end_date)
           IN  /\ Len(p.daily_stats) = last - first + 1
               /\ \A k \in DOMAIN p.daily_stats :
                     DayOf(p.daily_stats[k].date) = first + k - 1

\* the work sessions (by position) of task `id` that start in [from, to]
QualifyingAt(list, id, from, to) ==
    {i \in DOMAIN list : /\ list[i].session_type = "work"
                         /\ list[i].task_id = Some(id)
                         /\ from <= list[i].start_time
                         /\ list[i].start_time <= to}

\* C28: period(...) returns one TaskStats for each task of the supplied list
\* that has a work session with its id starting in [start, end] and none for
\* any other task; total_sessions, total_duration, first_session and
\* last_session are the count, the duration sum, the earliest and the latest
\* start of exactly those sessions
C28_TaskStatsOfQualifyingSessions ==
    period_stats # None
        => LET p == Val(period_stats)
               Q(id) == QualifyingAt(stat_sessions, id, p.start_date, p.end_date)
               Listed == {k \in DOMAIN stat_tasks : Q(stat_tasks[k].id) # {}}
           IN  /\ Len(p.task_stats) = Cardinality(Listed)
               /\ \A k \in Listed :
                     \E n \in DOMAIN p.task_stats :
                         p.task_stats[n].task = stat_tasks[k]
               /\ \A n \in DOMAIN p.task_stats :
                     LET e == p.task_stats[n]
                         T == {stat_sessions[i].start_time : i \in Q(e.task.id)}
                     IN  /\ \E k \in Listed : stat_tasks[k] = e.task
                         /\ e.total_sessions = Cardinality(Q(e.task.id))
                         /\ e.total_duration
                              = DurationAt(stat_sessions, Q(e.task.id))
                         /\ e.first_session \in T
                         /\ e.last_session \in T
                         /\ \A t \in T : e.first_session <= t /\ t <= e.last_session

\* a period in which task 1 has a work session and a break: of the two
\* tasks supplied only task 1 gets an entry, and it counts one session
C28_Witness ==
    /\ period_stats # None
    /\ Len(stat_tasks) = 2
    /\ Len(Val(period_stats).task_stats) = 1
    /\ Val(period_stats).task_stats[1].task.id = 1
    /\ Val(period_stats).task_stats[1].total_sessions = 1
    /\ Val(period_stats).break_sessions = 1
    /\ \A i \in DOMAIN stat_sessions : stat_sessions[i].task_id = Some(1)

\* C29: most_productive_day is the daily entry with the maximum
\* total_pomodoros, the earliest in date order of those that tie for it, and
\* null when the period has no daily entries
C29_MostProductiveDay ==
    most_productive_day_result # None /\ period_stats # None
        => LET daily == Val(period_stats).daily_stats
               r == Val(most_productive_day_result)
           IN  /\ daily = <<>> => r = None
               /\ daily # <<>>
                    => /\ r # None
                       /\ \E k \in DOMAIN daily : daily[k] = Val(r)
                       /\ \A j \in DOMAIN daily :
                             /\ daily[j].total_pomodoros <= Val(r).total_pomodoros
                             /\ daily[j].total_pomodoros = Val(r).total_pomodoros
                                  => Val(r).date <= daily[j].date

\* of three days with 1, 2 and 2 pomodoros the second is returned
C29_Witness ==
    /\ period_stats # None
    /\ Len(Val(period_stats).daily_stats) = 3
    /\ Val(period_stats).daily_stats[1].total_pomodoros = 1
    /\ Val(period_stats).daily_stats[2].total_pomodoros = 2
    /\ Val(period_stats).daily_stats[3].total_pomodoros = 2
    /\ most_productive_day_result = Some(Some(Val(period_stats).daily_stats[2]))

\* C30: top_tasks returns min(5, number of TaskStats) entries, each taken
\* from the period's task_stats, ordered by descending persisted pomodoro
\* count of the task, and every omitted entry has a count <= that of every
\* returned entry
C30_TopTasks ==
    top_tasks_result # None /\ period_stats # None
        => LET all == Val(period_stats).task_stats
               r == Val(top_tasks_result)
               Returned == {r[i] : i \in DOMAIN r}
               Omitted == {all[k] : k \in DOMAIN all} \ Returned
           IN  /\ Len(r) = IF Len(all) < 5 THEN Len(all) ELSE 5
               /\ \A i \in DOMAIN r : \E k \in DOMAIN all : r[i] = all[k]
               /\ Cardinality(Returned) = Len(r)
               /\ \A i, j \in DOMAIN r :
                     i < j => r[i].task.pomodoro_count >= r[j].task.pomodoro_count
               /\ \A o \in Omitted : \A x \in Returned :
                     o.task.pomodoro_count <= x.task.pomodoro_count

\* of six task entries the first, the only one of a task with no pomodoro,
\* is left out although it has the most sessions in the period
C30_Witness ==
    /\ period_stats # None
    /\ top_tasks_result # None
    /\ Len(Val(period_stats).task_stats) = 6
    /\ Len(Val(top_tasks_result)) = 5
    /\ Val(period_stats).task_stats[1].task.pomodoro_count = 0
    /\ \A i \in DOMAIN Val(top_tasks_result) :
          /\ Val(top_tasks_result)[i] = Val(period_stats).task_stats[i + 1]
          /\ Val(top_tasks_result)[i].total_sessions
                < Val(period_stats).task_stats[1].total_sessions

\* the number a sequence of digit characters writes
RECURSIVE Written(_)
Written(digits) ==
    IF digits = <<>> THEN 0
    ELSE 10 * Written(SubSeq(digits, 1, Len(digits) - 1))
            + (CHOOSE d \in 0..9 : DigitChars[d + 1] = digits[Len(digits)])

IsDigits(chars) == \A i \in DOMAIN chars : \E d \in 0..9 : DigitChars[d + 1] = chars[i]

\* C31: format_time(s) for a non-negative integer s yields the minutes
\* s div 60, in at least two digits and not capped at 59, and the seconds
\* s mod 60 in two digits, so that minutes * 60 + seconds = s and
\* 0 <= seconds <= 59
C31_FormatTime ==
    format_result # <<>> /\ format_seconds # None
        => LET s == Val(format_seconds)
               n == Len(format_result)
               mm == SubSeq(format_result, 1, n - 3)
               ss == SubSeq(format_result, n - 1, n)
           IN  /\ n >= 5
               /\ format_result[n - 2] = ":"
               /\ IsDigits(mm) /\ IsDigits(ss)
               /\ Len(mm) = 2 \/ mm[1] # "0"
               /\ Written(mm) = s \div 60
               /\ Written(ss) = s % 60
               /\ Written(mm) * 60 + Written(ss) = s
               /\ 0 <= Written(ss) /\ Written(ss) <= 59

\* 3661 seconds are written 61:01
C31_Witness ==
    /\ format_seconds = Some(3661)
    /\ format_result = <<"6", "1", ":", "0", "1">>

\* C32: in every reachable state in which the engine is active,
\* 0 <= time_remaining <= total_duration, whatever the configuration and
\* the sequence of start, pause, resume, stop, reset and tick calls
C32_RemainingWithinTotal ==
    is_active(state) => 0 <= time_remaining /\ time_remaining <= total_duration

Breaks == {"SHORT_BREAK", "LONG_BREAK"}

\* the last engine call was a resume() that took up a session which pause()
\* had suspended in a break state, and the session is still running
ResumedBreakRuns ==
    /\ op = "resume"
    /\ notified # <<>>
    /\ paused_from \in {Some(b) : b \in Breaks}
    /\ is_active(state)

\* C33: a session started as a short or long break never finalizes as a
\* work session, whatever pause()/resume() calls come before it runs out:
\* its session-complete notification has a break type and no task id, and
\* completed_pomodoros is not incremented by it.  Stated for the tick() that
\* finalizes a break taken up again by resume()
C33_BreakFinalizesAsBreak ==
    [][ResumedBreakRuns /\ Called("tick") /\ returned' = Some(TRUE)
        => /\ \A i \in NotesOfKind(notified', "session_complete") :
                 /\ notified'[i].session_type \in {"short_break", "long_break"}
                 /\ notified'[i].task_id = None
           /\ completed_pomodoros' = completed_pomodoros]_vars

\* the engine calls other than tick()
OtherCalls ==
    {"start_work_session", "start_short_break", "start_long_break",
     "start_next_session", "pause", "resume", "toggle_pause", "stop", "reset",
     "set_current_task"}

\* C34: a session-complete notification is emitted only by a tick() that
\* finds the remaining time of an active session at zero; stop(), reset(),
\* pause(), resume() and every start call made while an interval is in
\* progress abandon or replace it without emitting session-complete and
\* without counting a pomodoro
C34_CompletionOnlyFromTick ==
    [][now' = now
        => /\ NotesOfKind(notified', "session_complete") # {}
                => /\ op' = "tick"
                   /\ returned' = Some(TRUE)
                   /\ is_active(state)
                   /\ time_remaining = 0
                   /\ Cardinality(NotesOfKind(notified', "session_complete")) = 1
           /\ op' \in OtherCalls
                => /\ NotesOfKind(notified', "session_complete") = {}
                   /\ completed_pomodoros' = completed_pomodoros
                        \/ (op' = "reset" /\ completed_pomodoros' = 0)]_vars

\* a work session with 40 s left has been replaced by a break through
\* start_next_session(): no session-complete, no pomodoro counted
C34_Witness ==
    /\ op = "start_next_session"
    /\ state \in Breaks
    /\ now = 20 * TicksPerSecond + 1
    /\ session_start_time = Some(now)
    /\ notified = <<StateChange(state)>>
    /\ completed_pomodoros = 0

\* C35: start_next_session() called while Paused is a no-op: the state
\* stays Paused, the remaining-time snapshot and the completed-pomodoro
\* counter are unchanged and no notification is emitted; the paused interval
\* can still be resumed afterwards, with its snapshot intact
C35_NextSessionWhilePaused ==
    [][/\ state = "PAUSED" /\ Called("start_next_session")
            => /\ state' = "PAUSED"
               /\ paused_time_remaining' = paused_time_remaining
               /\ completed_pomodoros' = completed_pomodoros
               /\ session_duration' = session_duration
               /\ session_start_time' = session_start_time
               /\ current_task_id' = current_task_id
               /\ notified' = <<>>
       /\ state = "PAUSED" /\ op = "start_next_session" /\ Called("resume")
            => /\ paused_time_remaining # None
               /\ is_active(state')
               /\ session_duration' = Val(paused_time_remaining)
               /\ session_start_time' = Some(now)
               /\ time_remaining' = Val(paused_time_remaining)]_vars

\* start_next_session() has been called on a work session paused with 40 s
\* left: the engine is still Paused with that snapshot
C35_Witness ==
    /\ op = "start_next_session"
    /\ state = "PAUSED"
    /\ paused_from = Some("WORKING")
    /\ paused_time_remaining = Some(40)
    /\ notified = <<>>

\* C36: the invalid-state error of the session-type derivation is
\* unreachable through the engine's operations: finalization only ever runs
\* with the state Working, ShortBreak or LongBreak, so tick() never raises;
\* in any other state tick() returns false and does nothing
C36_FinalizationInActiveState ==
    [][Called("tick")
        => /\ \A i \in NotesOfKind(notified', "session_complete") :
                 /\ state \in {"WORKING", "SHORT_BREAK", "LONG_BREAK"}
                 /\ from_state(state) # "ValueError"
                 /\ notified'[i].session_type = from_state(state)
                 /\ notified'[i].session_type \in SessionTypes
           /\ returned' = Some(TRUE)
                => NotesOfKind(notified', "session_complete") # {}
           /\ state \in {"IDLE", "PAUSED"}
                => /\ returned' = Some(FALSE)
                   /\ notified' = <<>>
                   /\ UNCHANGED engine]_vars

\* a tick() has finalized a long break
C36_Witness ==
    /\ op = "tick"
    /\ returned = Some(TRUE)
    /\ \E i \in NotesOfKind(notified, "session_complete") :
          notified[i].session_type = "long_break"
    /\ state = "IDLE"

\* a timestamp without a fraction of a second
WholeSecond(t) == t % TicksPerSecond = 0

StatFields ==
    {"total_pomodoros", "work_sessions", "break_sessions", "completed_sessions",
     "total_duration"}

\* the sum of one field over a list of DailyStats
RECURSIVE SumOfField(_, _)
SumOfField(list, field) ==
    IF list = <<>> THEN 0
    ELSE Head(list)[field] + SumOfField(Tail(list), field)

\* C37: for every period(sessions, tasks, start, end) with start <= end and
\* whole-second timestamps, each session counted in the period totals is
\* counted in exactly one DailyStats entry: the sums over daily_stats of
\* total_pomodoros, work_sessions, break_sessions, completed_sessions and
\* total_duration equal the period totals
C37_DailySumsEqualTotals ==
    /\ period_stats # None
    /\ WholeSecond(Val(period_stats).start_date)
    /\ WholeSecond(Val(period_stats).end_date)
    /\ \A i \in DOMAIN stat_sessions : WholeSecond(stat_sessions[i].start_time)
    => \A field \in StatFields :
          SumOfField(Val(period_stats).daily_stats, field)
            = Val(period_stats)[field]

\* the clock reading at which the running session has run out
Deadline == Val(session_start_time) + session_duration * TicksPerSecond

\* the clock keeps advancing at least up to this reading: the smallest
\* delay still fits below MaxNow before it
SureClock == MaxNow + 1 - (CHOOSE d \in Delays : \A e \in Delays : d <= e)

\* an interval is running that runs out while the clock still advances
RunsOutInTime ==
    /\ is_active(state)
    /\ session_start_time # None
    /\ Deadline <= SureClock

\* the last call was a tick() that finalized the interval
Finalized ==
    /\ op = "tick"
    /\ returned = Some(TRUE)
    /\ state = "IDLE"
    /\ NotesOfKind(notified, "session_complete") # {}

\* C38: if the wall clock keeps advancing and tick() keeps being called,
\* every started interval that is not stopped, reset or replaced eventually
\* finalizes (session-complete emitted, engine Idle) unless it is paused;
\* and while the engine is Paused no elapsed time and no tick finalizes
\* the interval
C38_TickLoopLiveness ==
    /\ RunsOutInTime ~> (Finalized \/ state = "PAUSED")
    /\ [][state = "PAUSED" /\ (Called("tick") \/ now' # now)
            => /\ state' = "PAUSED"
               /\ paused_time_remaining' = paused_time_remaining
               /\ completed_pomodoros' = completed_pomodoros
               /\ time_remaining' = time_remaining
               /\ NotesOfKind(notified', "session_complete") = {}
                    \/ notified' = notified]_vars

\* a work session that was paused, resumed 20 s later and run to its end
\* has been finalized, 100 s after its start
C38_Witness ==
    /\ Finalized
    /\ paused_from = Some("WORKING")
    /\ completed_pomodoros = 1
    /\ now >= 100 * TicksPerSecond
    /\ \E i \in DOMAIN notified : notified[i] = TickNote(0)

====
